---- MODULE Spec2Model ----
(***************************************************************************)
(* Model of the kuberdock command line client's pod-draft assembler        *)
(* (class KuberDock) and of its egress-filter reconciler                   *)
(* (KubeCtl.postprocess), src/kuberdock-cli/kubecli/container/container.py *)
(*                                                                         *)
(* Conventions.  A Python dict is a function whose DOMAIN is the set of    *)
(* keys present (hasattr / "in" / .get are tests on the DOMAIN); a Python  *)
(* list is a sequence; a Python string on which the code does character    *)
(* work (split, strip, index, regular expressions) is a sequence of        *)
(* one-character strings; None is NoneStr or NoneSeq, by the type of the   *)
(* field that holds it.                                                    *)
(***************************************************************************)
EXTENDS Integers, Sequences, FiniteSets, TLC

VARIABLES store, last, submitted, scheduled, rules, pods, input, output,
          running

vars == <<store, last, submitted, scheduled, rules, pods, input, output,
         running>>

----------------------------------------------------------------------------
(* Python values                                                           *)

NoneStr == "<None>"
NoneSeq == <<"<None>">>
BoundMethod == <<"<bound method>">>
EmptyDict == <<>>

Has(d, k) == k \in DOMAIN d
Update(d, e) == e @@ d
Project(d, keys) == [k \in (DOMAIN d) \cap keys |-> d[k]]
Truthy(s) == s # <<>> /\ s # NoneSeq

\* a list comprehension [s[i] for i in range(len(s)) if i in keep]
RECURSIVE Filter(_, _)
Filter(s, keep) ==
    IF s = <<>> THEN <<>>
    ELSE Filter(SubSeq(s, 1, Len(s) - 1), keep)
         \o (IF Len(s) \in keep THEN <<s[Len(s)]>> ELSE <<>>)

Range(s) == {s[i] : i \in DOMAIN s}

----------------------------------------------------------------------------
(* Python string methods, on sequences of characters                       *)

Whitespace == {" ", "\n"}
Digits == <<"0", "1", "2", "3", "4", "5", "6", "7", "8", "9">>
DigitSet == Range(Digits)
DigitValue(c) == (CHOOSE i \in DOMAIN Digits : Digits[i] = c) - 1
UpperCase == <<"A", "B", "D", "K", "O", "X">>
LowerCase == <<"a", "b", "d", "k", "o", "x">>
\* the characters \w matches
WordChars == Range(UpperCase) \cup Range(LowerCase)
             \cup {"c", "e", "g", "i", "n", "p", "r", "t", "u"}
             \cup DigitSet \cup {"_"}

RECURSIVE LStrip(_, _)
LStrip(s, chars) ==
    IF s # <<>> /\ Head(s) \in chars THEN LStrip(Tail(s), chars) ELSE s

RECURSIVE RStrip(_, _)
RStrip(s, chars) ==
    IF s # <<>> /\ s[Len(s)] \in chars
    THEN RStrip(SubSeq(s, 1, Len(s) - 1), chars) ELSE s

\* str.strip()
Strip(s) == RStrip(LStrip(s, Whitespace), Whitespace)

\* str.split(sep) for a one-character sep: "" gives [""]
RECURSIVE SplitFrom(_, _, _)
SplitFrom(s, sep, cur) ==
    IF s = <<>> THEN <<cur>>
    ELSE IF Head(s) = sep THEN <<cur>> \o SplitFrom(Tail(s), sep, <<>>)
         ELSE SplitFrom(Tail(s), sep, Append(cur, Head(s)))

Split(s, sep) == SplitFrom(s, sep, <<>>)

\* str.replace(a, b) for one-character a, b
Replace(s, a, b) == [i \in DOMAIN s |-> IF s[i] = a THEN b ELSE s[i]]

\* str.lower()
Lower(s) ==
    [i \in DOMAIN s |->
        IF s[i] \in Range(UpperCase)
        THEN LowerCase[CHOOSE j \in DOMAIN UpperCase : UpperCase[j] = s[i]]
        ELSE s[i]]

\* int() of a non-empty run of decimal digits
RECURSIVE ParseInt(_)
ParseInt(ds) ==
    IF ds = <<>> THEN 0
    ELSE 10 * ParseInt(SubSeq(ds, 1, Len(ds) - 1)) + DigitValue(ds[Len(ds)])

\* the longest prefix of s made of characters of cs
RECURSIVE TakeWhile(_, _)
TakeWhile(s, cs) ==
    IF s # <<>> /\ Head(s) \in cs THEN <<Head(s)>> \o TakeWhile(Tail(s), cs)
    ELSE <<>>

Drop(s, n) == SubSeq(s, n + 1, Len(s))

\* str(n) for a natural number n
RECURSIVE IntToStr(_)
IntToStr(n) ==
    IF n < 10 THEN <<Digits[n + 1]>>
    ELSE IntToStr(n \div 10) \o <<Digits[(n % 10) + 1]>>

\* sep.join(items)
RECURSIVE Join(_, _)
Join(items, sep) ==
    IF items = <<>> THEN <<>>
    ELSE IF Len(items) = 1 THEN items[1]
    ELSE items[1] \o sep \o Join(Tail(items), sep)
StartsWith(s, p) == Len(s) >= Len(p) /\ SubSeq(s, 1, Len(p)) = p

----------------------------------------------------------------------------
(* Draft store: one file per pod name under the containers directory       *)

\* ord() of the characters pod names are made of
Ord(c) ==
    CASE c = "a" -> 97 [] c = "b" -> 98 [] c = "p" -> 112 [] c = "x" -> 120
      [] c = "1" -> 49 [] c = "?" -> 63 [] c = ">" -> 62
      [] c = "u" -> 117 [] c = "n" -> 110 [] c = "m" -> 109 [] c = "e" -> 101
      [] c = "d" -> 100 [] c = "-" -> 45

\* chr() of a byte; bytes of no character of a pod name give "\\x"
Chr(b) ==
    LET cs == {"a", "b", "p", "x", "1", "?", ">", "u", "n", "m", "e", "d", "-"}
    IN  IF \E c \in cs : Ord(c) = b THEN CHOOSE c \in cs : Ord(c) = b
        ELSE "\\x"

B64Std ==
    <<"A", "B", "C", "D", "E", "F", "G", "H", "I", "J", "K", "L", "M",
      "N", "O", "P", "Q", "R", "S", "T", "U", "V", "W", "X", "Y", "Z",
      "a", "b", "c", "d", "e", "f", "g", "h", "i", "j", "k", "l", "m",
      "n", "o", "p", "q", "r", "s", "t", "u", "v", "w", "x", "y", "z",
      "0", "1", "2", "3", "4", "5", "6", "7", "8", "9", "+", "/">>

\* the URL-safe alphabet: '+' and '/' become '-' and '_'
B64UrlSafe == [i \in DOMAIN B64Std |->
                 IF B64Std[i] = "+" THEN "-"
                 ELSE IF B64Std[i] = "/" THEN "_" ELSE B64Std[i]]

\* base64 of a byte sequence over an alphabet, '=' padded
RECURSIVE B64Encode(_, _)
B64Encode(bytes, alphabet) ==
    LET b(i) == IF i <= Len(bytes) THEN bytes[i] ELSE 0
        n == b(1) * 65536 + b(2) * 256 + b(3)
        ch(k) == alphabet[k + 1]
        c1 == ch(n \div 262144)
        c2 == ch((n \div 4096) % 64)
        c3 == ch((n \div 64) % 64)
        c4 == ch(n % 64)
    IN  IF bytes = <<>> THEN <<>>
        ELSE IF Len(bytes) = 1 THEN <<c1, c2, "=", "=">>
        ELSE IF Len(bytes) = 2 THEN <<c1, c2, c3, "=">>
        ELSE <<c1, c2, c3, c4>> \o B64Encode(Drop(bytes, 3), alphabet)

urlsafe_b64encode(name) ==
    B64Encode([i \in DOMAIN name |-> Ord(name[i])], B64UrlSafe)

ERR_TYPE == "TypeError"

\* binascii.a2b_base64, the decoder behind base64.b64decode: characters
\* outside the standard alphabet are skipped, a pad in the third or fourth
\* place of a group ends the input, and bits left over are an error.
\* d is what the decoder holds: the place in the group, the bits not yet
\* given out (left, bits of them), the bytes given out, and ended
Shift(d, v) ==
    LET left == d.left * 64 + v
        bits == d.bits + 6
    IN  IF bits >= 8
        THEN [quad |-> (d.quad + 1) % 4,
              left |-> left % (2 ^ (bits - 8)), bits |-> bits - 8,
              out |-> Append(d.out, (left \div (2 ^ (bits - 8))) % 256),
              ended |-> FALSE]
        ELSE [quad |-> (d.quad + 1) % 4, left |-> left, bits |-> bits,
              out |-> d.out, ended |-> FALSE]

\* binascii_find_valid: is the next character the table knows a pad
PadFollows(s) ==
    LET known == {i \in DOMAIN s : s[i] \in Range(B64Std) \cup {"="}}
    IN  known # {} /\ s[CHOOSE i \in known : \A j \in known : i <= j] = "="

RECURSIVE A2B(_, _)
A2B(s, d) ==
    IF s = <<>> \/ d.ended THEN d
    ELSE IF Head(s) = "="
         THEN IF d.quad < 2 \/ (d.quad = 2 /\ ~PadFollows(Tail(s)))
              THEN A2B(Tail(s), d)
              ELSE [d EXCEPT !.bits = 0, !.ended = TRUE]
    ELSE IF Head(s) \notin Range(B64Std) THEN A2B(Tail(s), d)
    ELSE A2B(Tail(s),
             Shift(d, (CHOOSE i \in DOMAIN B64Std : B64Std[i] = Head(s)) - 1))

\* base64.b64decode: [err, name]; "Incorrect padding" is raised as TypeError
b64decode(s) ==
    LET d == A2B(s, [quad |-> 0, left |-> 0, bits |-> 0, out |-> <<>>,
                     ended |-> FALSE])
    IN  IF d.bits # 0 THEN [err |-> ERR_TYPE, name |-> <<>>]
        ELSE [err |-> "", name |-> [i \in DOMAIN d.out |-> Chr(d.out[i])]]

EXT == <<".", "k", "u", "b", "e">>

\* the file of a pod name inside the containers directory
DataPath(name) == urlsafe_b64encode(name) \o EXT

\* contents a draft file can have (a missing file is not in DOMAIN store)
EmptyFile == [kind |-> "empty", doc |-> EmptyDict]
JsonFile(doc) == [kind |-> "json", doc |-> doc]
\* text that is no JSON, and a document whose writing stopped half way:
\* json.load raises ValueError on both, as on the empty file
TextFile == [kind |-> "text", doc |-> EmptyDict]
HalfWritten == [kind |-> "partial", doc |-> EmptyDict]
\* well-formed JSON that is no object: a list or a scalar
JsonValue(v) == [kind |-> "jsonvalue", doc |-> v]

Exists(st, path) == path \in DOMAIN st
WriteFile(st, path, content) == (path :> content) @@ st
Unlink(st, path) == [p \in (DOMAIN st) \ {path} |-> st[p]]

----------------------------------------------------------------------------
(* KuberDock: the object of one invocation.  self is the attribute dict:   *)
(* the constructor's defaults, overlaid by the loaded draft, overlaid by   *)
(* the command line arguments.                                             *)

ERR_INVALID_KUBE_TYPE == "Valid kube type must be set"
ERR_SPECIFY_IMAGE_OPTION == "You must specify an image with option"
ERR_USE_CREATE == "Use create command before setup pod"
ERR_MOUNT_PATH_EXPECTED == "--mount-path option is expected"
ERR_MOUNT_PATH_LETTERS == "--mount-path should contain letters"
ERR_MOUNT_PATH_LENGTH == "--mount-path maximum length is 30 symbols"
ERR_DRIVE_NOT_FOUND == "Drive not found"
ERR_WRONG_PORT_FORMAT == "Wrong port format"
ERR_POD_DATA_MISSING == "Pod data missing or contains garbage"
ERR_LIST_ENV_IMAGE == "To show envvars image is expected"
ERR_NOT_FOUND == "Temporary pod isn't found"
ERR_ATTRIBUTE == "AttributeError"
ERR_NO_SUCH_ITEM == "No such item"

\* what a step of a handler hands on: the object, and the exception raised
Ok(self) == [err |-> "", self |-> self]
Raise(self, e) == [err |-> e, self |-> self]

\* args.get('name', 'unnamed-1')
DefaultName == <<"u", "n", "n", "a", "m", "e", "d", "-", "1">>

\* Load as it would be if the stored document were never read: C2 must
\* tell it from Load
LoadNothing(st, args) ==
    Ok([containers |-> <<>>, volumes |-> <<>>, _initialized |-> FALSE])

\* _load: the attributes of the stored document are set on the object;
\* no file or no JSON gives False. A JSON document that is not an object
\* has no .items(): AttributeError, which _load does not catch.
Load(st, args) ==
    LET path == DataPath(IF Has(args, "name") THEN args.name ELSE DefaultName)
        base == [containers |-> <<>>, volumes |-> <<>>]
    IN  IF ~Exists(st, path) THEN Ok(Update(base, [_initialized |-> FALSE]))
        ELSE IF st[path].kind = "json"
             THEN Ok(Update(Update(base, st[path].doc),
                            [_initialized |-> TRUE]))
        ELSE IF st[path].kind = "jsonvalue" THEN Raise(base, ERR_ATTRIBUTE)
        ELSE Ok(Update(base, [_initialized |-> FALSE]))

\* KuberDock.__init__ followed by KubeCtl.__init__: load, then every
\* command line argument becomes an attribute
WithArgs(l, args) == IF l.err # "" THEN l ELSE Ok(Update(l.self, args))

Construct(st, args) == WithArgs(Load(st, args), args)

\* _generate_image_name: what follows the first '/', plus the random digits
GenerateImageName(name, rnd) ==
    IF "/" \in Range(name)
    THEN Drop(name, CHOOSE i \in DOMAIN name :
                      name[i] = "/" /\ \A j \in 1..(i - 1) : name[j] # "/")
         \o rnd
    ELSE name \o rnd

ImageIndexes(containers, image) ==
    {i \in DOMAIN containers : containers[i].image = image}

Min(S) == CHOOSE x \in S : \A y \in S : x <= y

\* the seed as it would be if the pulled ports were taken as public: C23
\* must tell it from PulledSeed
PublicSeed(pulled) ==
    LET vm == IF Has(pulled, "volumeMounts")
              THEN [volumeMounts |->
                      [i \in DOMAIN pulled.volumeMounts |->
                          [mountPath |-> pulled.volumeMounts[i]]]]
              ELSE EmptyDict
        ports == IF Has(pulled, "ports")
                 THEN [ports |->
                         [i \in DOMAIN pulled.ports |->
                            [isPublic |-> TRUE,
                             containerPort |-> pulled.ports[i].number,
                             hostPort |-> pulled.ports[i].number,
                             protocol |-> pulled.ports[i].protocol]]]
                 ELSE EmptyDict
    IN  Update(Update(pulled, vm), ports)

\* the seed of a new container from the pulled image data
PulledSeed(pulled) ==
    LET vm == IF Has(pulled, "volumeMounts")
              THEN [volumeMounts |->
                      [i \in DOMAIN pulled.volumeMounts |->
                          [mountPath |-> pulled.volumeMounts[i]]]]
              ELSE EmptyDict
        ports == IF Has(pulled, "ports")
                 THEN [ports |->
                         [i \in DOMAIN pulled.ports |->
                            [isPublic |-> FALSE,
                             containerPort |-> pulled.ports[i].number,
                             hostPort |-> pulled.ports[i].number,
                             protocol |-> pulled.ports[i].protocol]]]
                 ELSE EmptyDict
    IN  Update(Update(pulled, vm), ports)

\* _get_image as it would be without the search for the image: C3 must
\* tell it from GetImage
AppendImage(self, pulled, rnd) ==
    Update(self,
      [containers |->
         Append(self.containers,
                Update([image |-> self.image,
                        name |-> GenerateImageName(self.image, rnd)],
                       PulledSeed(pulled)))])

\* _get_image: the container of self.image, appended when there is none.
\* pulled is the answer of the image query ({} when the query failed).
GetImage(self, pulled, rnd) ==
    IF ImageIndexes(self.containers, self.image) # {} THEN self
    ELSE LET image == Update([image |-> self.image,
                              name |-> GenerateImageName(self.image, rnd)],
                             PulledSeed(pulled))
         IN  Update(self, [containers |-> Append(self.containers, image)])

\* set, lines 483-485: select the container and set its kubes
SelectImage(self, pulled, rnd) ==
    LET s1 == GetImage(self, pulled, rnd)
        i == Min(ImageIndexes(s1.containers, s1.image))
    IN  Update(s1, [containers |->
                      [s1.containers EXCEPT
                         ![i] = Update(@, [kubes |-> ParseInt(self.kubes)])]])

\* _delete_container_image. Without a 'delete' argument self.delete is the
\* inherited method KubeCtl.delete, which equals no image.
DeleteContainerImage(self) ==
    Update(self,
      [containers |->
         Filter(self.containers,
                {i \in DOMAIN self.containers :
                   self.containers[i].image #
                     (IF Has(self, "delete") THEN self.delete
                      ELSE BoundMethod)})])

----------------------------------------------------------------------------
(* _prepare_volumes                                                        *)

MaxMountPathLen == 30

\* re.match('^[\w/.-]*$', path): '$' also matches before a final newline
MountPathMatches(path) ==
    LET body == TakeWhile(path, WordChars \cup {"/", ".", "-"})
    IN  Drop(path, Len(body)) \in {<<>>, <<"\n">>}

HasMountPath(v) == Has(v, "mountPath") /\ Truthy(v.mountPath)
HasName(v) == Has(v, "name") /\ Truthy(v.name)
\* the final filter as it would be if it looked at the mount path alone:
\* C8 must tell it from HasBoth
HasPathOnly(v) == Has(v, "mountPath") /\ Truthy(v.mountPath)

HasBoth(v) == HasMountPath(v) /\ HasName(v)

\* lines 780-801: bind self.persistent_drive at self.mount_path in
\* container i, whose mounts vm are already filtered
BindDrive(self, i, vm, rnd) ==
    LET same == {j \in DOMAIN vm : vm[j].mountPath = self.mount_path}
        j == IF same # {} THEN Min(same) ELSE Len(vm) + 1
        vm1 == IF same # {} THEN vm
               ELSE Append(vm, [mountPath |-> self.mount_path])
        generated == GenerateImageName(
                        Lower(Replace(LStrip(self.mount_path, {"/"}),
                                      "/", "-")), rnd)
        mount == IF HasName(vm1[j]) THEN vm1[j]
                 ELSE Update(vm1[j], [name |-> generated])
        named == {k \in DOMAIN self.volumes :
                    Has(self.volumes[k], "name")
                    /\ self.volumes[k].name = mount.name}
        disk == [persistentDisk |->
                   [pdName |-> self.persistent_drive,
                    pdSize |-> IF Has(self, "size") THEN self.size
                               ELSE NoneStr]]
        volumes == IF named # {}
                   THEN [self.volumes EXCEPT ![Min(named)] = Update(@, disk)]
                   ELSE Append(self.volumes,
                               Update([name |-> mount.name], disk))
    IN  Update(self,
               [containers |->
                  [self.containers EXCEPT
                     ![i] = Update(@, [volumeMounts |->
                                         [vm1 EXCEPT ![j] = mount]])],
                volumes |-> volumes])

\* the loop of _prepare_volumes from container i on. drives is the
\* answer of _get_drives, rnd the digits drawn for a generated name.
RECURSIVE PrepareVolumesFrom(_, _, _, _, _)
PrepareVolumesFrom(self, i, final, drives, rnd) ==
    IF i > Len(self.containers) THEN Ok(self)
    ELSE
    LET c == self.containers[i]
        With(vm) == Update(self,
                      [containers |->
                         [self.containers EXCEPT
                            ![i] = Update(@, [volumeMounts |-> vm])]])
        Rest(s) == PrepareVolumesFrom(s, i + 1, final, drives, rnd)
    IN  IF ~Has(c, "volumeMounts") THEN Rest(With(<<>>))
        ELSE IF final THEN Rest(With(Filter(c.volumeMounts,
                                        {j \in DOMAIN c.volumeMounts :
                                           HasBoth(c.volumeMounts[j])})))
        ELSE
        LET vm == Filter(c.volumeMounts,
                         {j \in DOMAIN c.volumeMounts :
                            HasMountPath(c.volumeMounts[j])})
        IN  IF ~Has(self, "persistent_drive") THEN Rest(With(vm))
            ELSE IF ~Has(self, "image") \/ self.image # c.image
                 THEN Rest(With(vm))
            ELSE IF ~Has(self, "mount_path")
                 THEN Raise(self, ERR_MOUNT_PATH_EXPECTED)
            ELSE IF ~MountPathMatches(self.mount_path)
                 THEN Raise(self, ERR_MOUNT_PATH_LETTERS)
            ELSE IF Len(self.mount_path) > MaxMountPathLen
                 THEN Raise(self, ERR_MOUNT_PATH_LENGTH)
            ELSE IF /\ \A d \in DOMAIN drives :
                          drives[d].name # self.persistent_drive
                    /\ ~Has(self, "size")
                 THEN Raise(self, ERR_DRIVE_NOT_FOUND)
            ELSE Rest(BindDrive(With(vm), i, vm, rnd))

PrepareVolumes(self, final, drives, rnd) ==
    PrepareVolumesFrom(self, 1, final, drives, rnd)

----------------------------------------------------------------------------
(* _prepare_ports                                                          *)

MinPort == 1
MaxPort == 65536
Tcp == <<"t", "c", "p">>
Udp == <<"u", "d", "p">>

\* s without its first character when that is c: the regex c?
OptChar(s, c) == IF s # <<>> /\ Head(s) = c THEN Tail(s) ELSE s

ProtocolAt(s) == IF StartsWith(s, Tcp) THEN Tcp
                 ELSE IF StartsWith(s, Udp) THEN Udp ELSE <<>>

\* $ : the end of the string, or a final newline
MatchEnd(public, container_port, host_port, protocol, r) ==
    [matched |-> container_port # <<>> /\ r \in {<<>>, <<"\n">>},
     public |-> public,
     container_port |-> container_port,
     host_port |-> host_port,
     protocol |-> protocol]

\* (tcp|udp)?
MatchProtocol(public, container_port, host_port, r) ==
    MatchEnd(public, container_port, host_port, ProtocolAt(r),
             Drop(r, Len(ProtocolAt(r))))

\* (\d+)?\:?
MatchHost(public, container_port, r) ==
    MatchProtocol(public, container_port, TakeWhile(r, DigitSet),
                  OptChar(Drop(r, Len(TakeWhile(r, DigitSet))), ":"))

\* (\d+)\:?
MatchContainer(public, r) ==
    MatchHost(public, TakeWhile(r, DigitSet),
              OptChar(Drop(r, Len(TakeWhile(r, DigitSet))), ":"))

\* patt.match(p): the groups of
\*   ^(\+)?(\d+)\:?(\d+)?\:?(tcp|udp)?$
\* Every quantifier is greedy and no shorter choice can rescue a failed
\* match, so the groups are read off left to right. An unmatched group
\* is <<>>.
MatchPort(p) == MatchContainer(p # <<>> /\ Head(p) = "+", OptChar(p, "+"))

\* the entry as it would be without the range checks: C7 must tell it
\* from CheckedEntry
UncheckedEntry(public, container_port, host_port, protocol) ==
    <<[isPublic |-> public,
       containerPort |-> container_port,
       hostPort |-> host_port,
       protocol |-> protocol]>>

\* lines 847-857: the range checks and the entry
CheckedEntry(public, container_port, host_port, protocol) ==
    IF \/ container_port < MinPort
       \/ container_port >= MaxPort
       \/ host_port < MinPort
       \/ host_port >= MaxPort
       \/ protocol \notin {Tcp, Udp}
    THEN <<>>
    ELSE <<[isPublic |-> public,
            containerPort |-> container_port,
            hostPort |-> host_port,
            protocol |-> protocol]>>

\* lines 837-846: the defaults of the unmatched groups
EntryOf(m) ==
    IF ~m.matched THEN <<>>
    ELSE CheckedEntry(m.public, ParseInt(m.container_port),
                      IF m.host_port # <<>> THEN ParseInt(m.host_port)
                      ELSE ParseInt(m.container_port),
                      IF m.protocol # <<>> THEN m.protocol ELSE Tcp)

\* lines 835-857 for one token: the port entry, or <<>> when the token
\* raises the format error
PortEntry(p) == EntryOf(MatchPort(p))

\* the ports of a whole --container-port argument; <<>> entries mark
\* tokens that raise
PortEntries(arg) ==
    LET tokens == Split(Strip(arg), ",")
    IN  [i \in DOMAIN tokens |-> PortEntry(tokens[i])]

PreparePorts(self) ==
    IF ~Has(self, "container_port") THEN Ok(self)
    ELSE IF ~Has(self, "image") THEN Raise(self, ERR_SPECIFY_IMAGE_OPTION)
    ELSE
    LET entries == PortEntries(self.container_port)
        ports == [i \in DOMAIN entries |-> entries[i][1]]
    IN  IF \E i \in DOMAIN entries : entries[i] = <<>>
        THEN Raise(self, ERR_WRONG_PORT_FORMAT)
        ELSE Ok(Update(self,
                  [containers |->
                     [i \in DOMAIN self.containers |->
                        IF self.containers[i].image # self.image
                        THEN self.containers[i]
                        ELSE Update(self.containers[i],
                                    [ports |-> ports])]]))

----------------------------------------------------------------------------
(* _prepare_env                                                            *)

\* the {name, value} dicts of the well-formed items of an --env argument
DataToAdd(arg) ==
    LET items == Split(Strip(arg), ",")
        good == Filter(items, {i \in DOMAIN items :
                                 Len(Split(items[i], ":")) = 2})
    IN  [i \in DOMAIN good |->
           LET parts == Split(Strip(good[i]), ":")
           IN  [name |-> parts[1], value |-> parts[2]]]

\* _add_or_update_env: the env list of a container after --env arg
AddOrUpdateEnv(env, arg) ==
    LET existing == {env[i].name : i \in DOMAIN env}
        data_to_add == DataToAdd(arg)
        Matches(i) == {j \in DOMAIN data_to_add :
                         data_to_add[j].name = env[i].name}
        updated == [i \in DOMAIN env |->
                      IF Matches(i) = {} THEN env[i]
                      ELSE Update(env[i],
                             [value |-> data_to_add[Min(Matches(i))].value])]
    IN  updated \o Filter(data_to_add,
                          {j \in DOMAIN data_to_add :
                             data_to_add[j].name \notin existing})

\* _delete_env as it would be if the argument were one name: C9 must
\* tell it from DeleteEnv
DeleteOneName(env, arg) ==
    Filter(env, {i \in DOMAIN env : env[i].name # arg})

\* _delete_env: the env list of a container after --delete-env arg
DeleteEnv(env, arg) ==
    Filter(env, {i \in DOMAIN env :
                   env[i].name \notin Range(Split(arg, ","))})

\* lines 875-880 on one selected container
PrepareEnvOf(self, container) ==
    LET e0 == IF Has(container, "env") THEN container.env ELSE <<>>
        e1 == IF Has(self, "env") THEN AddOrUpdateEnv(e0, self.env) ELSE e0
        e2 == IF Has(self, "delete_env") THEN DeleteEnv(e1, self.delete_env)
              ELSE e1
    IN  Update(container, [env |-> e2])

PrepareEnv(self) ==
    IF ~Has(self, "env") /\ ~Has(self, "delete_env") THEN Ok(self)
    ELSE IF ~Has(self, "image") THEN Raise(self, ERR_SPECIFY_IMAGE_OPTION)
    ELSE Ok(Update(self,
              [containers |->
                 [i \in DOMAIN self.containers |->
                    IF self.containers[i].image # self.image
                    THEN self.containers[i]
                    ELSE PrepareEnvOf(self, self.containers[i])]]))

----------------------------------------------------------------------------
(* _prepare                                                                *)

Valid == {"name", "containers", "volumes", "service", "replicas",
          "kube_type", "restartPolicy", "public_ip"}

\* lines 729-731: a step runs when none before it raised
ThenPorts(r) == IF r.err # "" THEN r ELSE PreparePorts(r.self)
ThenEnv(r) == IF r.err # "" THEN r ELSE PrepareEnv(r.self)

\* lines 735-738: the document, the valid attributes of self
WithData(r) == [err |-> r.err, self |-> r.self, data |-> Project(r.self, Valid)]

\* _prepare: volumes, ports, env in this order; the first exception ends
\* it. On success .data is the document.
Prepare(self, final, drives, rnd) ==
    WithData(ThenEnv(ThenPorts(PrepareVolumes(self, final, drives, rnd))))

----------------------------------------------------------------------------
(* The commands. Each takes the store and the command line arguments and   *)
(* gives the store afterwards with the exception that ended the command    *)
(* ("" when it returned).                                                  *)

Done(st, self, err) == [store |-> st, self |-> self, err |-> err]

\* lines 724-725: the file is opened for writing, and so emptied, before
\* _prepare runs; p is what _prepare gives
WritePrepared(st, path, p) ==
    IF p.err # "" THEN Done(WriteFile(st, path, EmptyFile), p.self, p.err)
    ELSE Done(WriteFile(st, path, JsonFile(p.data)), p.self, "")

\* _save as it would be without the test of lines 721-722: C29 must tell
\* it from Save
SaveUnchecked(st, self, drives, rnd) ==
    WritePrepared(st, DataPath(self.name), Prepare(self, FALSE, drives, rnd))

\* _save, after the containers were selected and deleted
Save(st, self, drives, rnd) ==
    IF ~Exists(st, DataPath(self.name)) /\ self.action = "set"
    THEN Done(st, self, ERR_USE_CREATE)
    ELSE WritePrepared(st, DataPath(self.name),
                       Prepare(self, FALSE, drives, rnd))

\* lines 490-494: self.delete is None only when --delete was given as None
DeleteThenSave(st, self, drives, rnd) ==
    Save(st,
         IF Has(self, "delete") /\ self.delete = NoneSeq THEN self
         ELSE DeleteContainerImage(self),
         drives, rnd)

\* lines 487-494, on the object after the image was selected
ListOrSave(st, self, drives, rnd) ==
    IF Has(self, "list_env") /\ self.list_env
    THEN Done(st, self, IF Has(self, "image") THEN ""
                        ELSE ERR_LIST_ENV_IMAGE)
    ELSE DeleteThenSave(st, self, drives, rnd)

\* set (and create, which calls it) on the constructed object c
SetOn(st, c, pulled, drives, rnd1, rnd2) ==
    IF c.err # "" THEN Done(st, c.self, c.err)
    ELSE ListOrSave(st,
                    IF Has(c.self, "image")
                    THEN SelectImage(c.self, pulled, rnd1) ELSE c.self,
                    drives, rnd2)

\* a whole create or set invocation
Set(st, args, pulled, drives, rnd1, rnd2) ==
    SetOn(st, Construct(st, args), pulled, drives, rnd1, rnd2)

\* KubeTypeId as it would be if every symbol were known: C15 must tell it
\* from KubeTypeId
AnyKubeType(data, kube_types) == <<0>>

\* int(kube_types[data['kube_type']]): <<>> stands for the KeyError,
\* ValueError or TypeError that save turns into ERR_INVALID_KUBE_TYPE
KubeTypeId(data, kube_types) ==
    IF ~Has(data, "kube_type") \/ ~Has(kube_types, data.kube_type) THEN <<>>
    ELSE IF kube_types[data.kube_type] = <<>>
            \/ Range(kube_types[data.kube_type]) \ DigitSet # {}
         THEN <<>>
    ELSE <<ParseInt(kube_types[data.kube_type])>>

Posted(st, self, err, posted) ==
    [store |-> st, self |-> self, err |-> err, posted |-> posted]

\* Post as it would be if the file went whatever the answer: C16 must tell
\* it from Post
PostAndClear(st, self, data, answer) ==
    Posted(Unlink(st, DataPath(self.name)), self,
           IF Lower(answer.status) = <<"o", "k">> THEN "" ELSE "remote status",
           <<data>>)

\* lines 513-520: post the document; the file goes when the answer is OK
Post(st, self, data, answer) ==
    IF Lower(answer.status) = <<"o", "k">>
    THEN Posted(Unlink(st, DataPath(self.name)), self, "", <<data>>)
    ELSE Posted(st, self, "remote status", <<data>>)

\* lines 507-512, on what _prepare(final=True) gave
Translate(st, p, id, answer) ==
    IF p.err # "" THEN Posted(st, p.self, p.err, <<>>)
    ELSE IF id = <<>> THEN Posted(st, p.self, ERR_INVALID_KUBE_TYPE, <<>>)
    ELSE Post(st, p.self, Update(p.data, [kube_type |-> id[1]]), answer)

Finalize(st, p, kube_types, answer) ==
    Translate(st, p, KubeTypeId(p.data, kube_types), answer)

\* save on the constructed object c. .posted is the document sent,
\* <<>> when none was.
SaveOn(st, c, kube_types, answer) ==
    IF c.err # "" THEN Posted(st, c.self, c.err, <<>>)
    ELSE IF ~c.self._initialized
         THEN Posted(st, c.self, ERR_POD_DATA_MISSING, <<>>)
    ELSE Finalize(st, Prepare(c.self, TRUE, <<>>, <<>>), kube_types, answer)

\* a whole save invocation
SaveCmd(st, args, kube_types, answer) ==
    SaveOn(st, Construct(st, args), kube_types, answer)

\* _forget_one as it would be if it removed every file: C13 must tell it
\* from ForgetOne
ForgetEvery(st, c) ==
    IF c.err # "" THEN Done(st, c.self, c.err)
    ELSE IF ~Exists(st, DataPath(c.self.name))
         THEN Done(st, c.self, ERR_NOT_FOUND)
    ELSE Done(EmptyDict, c.self, "")

\* _forget_one on the constructed object c
ForgetOne(st, c) ==
    IF c.err # "" THEN Done(st, c.self, c.err)
    ELSE IF ~Exists(st, DataPath(c.self.name))
         THEN Done(st, c.self, ERR_NOT_FOUND)
    ELSE Done(Unlink(st, DataPath(c.self.name)), c.self, "")

\* a whole forget invocation with a name
Forget(st, args) == ForgetOne(st, Construct(st, args))

\* f.endswith(self.EXT)
EndsWith(f, e) == Len(f) >= Len(e) /\ SubSeq(f, Len(f) - Len(e) + 1, Len(f)) = e

\* f[:f.index(self.EXT)]: what precedes the first occurrence of the
\* extension
Stem(f) ==
    LET at == {i \in 1..(Len(f) - Len(EXT) + 1) :
                 SubSeq(f, i, i + Len(EXT) - 1) = EXT}
    IN  SubSeq(f, 1, (CHOOSE i \in at : \A j \in at : i <= j) - 1)

Listed(st, self, err, names) ==
    [store |-> st, self |-> self, err |-> err, names |-> names]

\* list on the constructed object c: the decoded stems of the files that
\* end with the extension; one name that b64decode refuses ends the
\* command with its TypeError
ListOn(st, c) ==
    LET stems == {Stem(f) : f \in {g \in DOMAIN st : EndsWith(g, EXT)}}
    IN  IF c.err # "" THEN Listed(st, c.self, c.err, {})
        ELSE IF \E n \in stems : b64decode(n).err # ""
             THEN Listed(st, c.self, ERR_TYPE, {})
        ELSE Listed(st, c.self, "", {b64decode(n).name : n \in stems})

\* a whole list invocation
ListCmd(st, args) == ListOn(st, Construct(st, args))

\* describe on the constructed object c: the document _prepare gives is
\* shown; nothing is written
DescribeOn(st, c) ==
    IF c.err # "" THEN Done(st, c.self, c.err)
    ELSE IF ~Exists(st, DataPath(c.self.name))
         THEN Done(st, c.self, ERR_NO_SUCH_ITEM)
    ELSE Done(st, c.self, Prepare(c.self, FALSE, <<>>, <<>>).err)

\* a whole describe invocation
Describe(st, args) == DescribeOn(st, Construct(st, args))

----------------------------------------------------------------------------
(* Pod deletion and the deferred reconciliation                            *)

ERR_KEY == "KeyError"
ERR_POD_NOT_FOUND == "Pod not found"
ERR_REMOTE == "remote error"

\* what _set_delayed hands on: the jobs given to at, and the exception
Delayed(jobs, err) == [scheduled |-> jobs, err |-> err]

\* _set_delayed: without a token in the arguments one is fetched, and the
\* answer is indexed outside the try; a failure of at is swallowed
SetDelayed(jobs, self, token_answer, at_ok) ==
    IF (~Has(self, "token") \/ self.token \in {"", "None"})
       /\ ~Has(token_answer, "token")
    THEN Delayed(jobs, ERR_KEY)
    ELSE IF at_ok THEN Delayed(Append(jobs, self.name), "")
    ELSE Delayed(jobs, "")

\* PodResource._find_pod_by_name: the positions of the pods of that name
PodIndexes(data, name) == {i \in DOMAIN data : data[i].name = name}

Deleted(data, jobs, err) == [pods |-> data, scheduled |-> jobs, err |-> err]

\* KubeCtl.delete of a pod: found by name in the remote listing, deleted
\* remotely, and then the reconciliation is scheduled. delete_ok: the
\* remote delete request went through
PodDelete(data, jobs, self, delete_ok, token_answer, at_ok) ==
    IF PodIndexes(data, self.name) = {}
    THEN Deleted(data, jobs, ERR_POD_NOT_FOUND)
    ELSE IF ~delete_ok THEN Deleted(data, jobs, ERR_REMOTE)
    ELSE Deleted(Filter(data, (DOMAIN data) \ {Min(PodIndexes(data, self.name))}),
                 SetDelayed(jobs, self, token_answer, at_ok).scheduled,
                 SetDelayed(jobs, self, token_answer, at_ok).err)

----------------------------------------------------------------------------
(* KubeCtl.postprocess: the egress reconciler. The OUTPUT chain of the nat *)
(* table is a sequence of rules; a rule is [target, dest, text], text the  *)
(* option text iptables -L prints after the destination column (<<>> when  *)
(* the rule has no options).                                               *)

SENTINEL == <<"2", "3", "3", ".", "2", "5", "2", ".", "0", ".", "2", "5", "4">>
OwnerPrefix == <<"!", " ", "o", "w", "n", "e", "r", " ",
                 "U", "I", "D", " ", "m", "a", "t", "c", "h", " ">>
ERR_INDEX == "IndexError"

\* the rule iptables -I adds for params: any traffic to dest not of uid is
\* sent to the sentinel; -L -n prints its options as below
ExemptRule(uid, dest) ==
    [target |-> "DNAT", dest |-> dest,
     text |-> OwnerPrefix \o uid \o <<" ", "t", "o", ":">> \o SENTINEL]

\* iptables -C as it would be if it never found the rule: C5 must tell it
\* from CheckRule
NeverFound(chain, uid, dest) == FALSE

\* iptables -C: is there a rule equal to the one params describe
CheckRule(chain, uid, dest) ==
    \E i \in DOMAIN chain : chain[i] = ExemptRule(uid, dest)

\* iptables -I without a position: at the head of the chain
InsertRule(chain, uid, dest) == <<ExemptRule(uid, dest)>> \o chain

\* iptables -D by position
DeleteRule(chain, n) ==
    [i \in 1..(Len(chain) - 1) |-> IF i < n THEN chain[i] ELSE chain[i + 1]]

\* i.split(None, 6) of a line of iptables -L -n --line-numbers: the number,
\* target, protocol, opt, source and destination, and, only when the rule
\* has options, their text
Fields(n, rule) ==
    <<[num |-> n], [s |-> rule.target], [s |-> "all"], [s |-> "--"],
      [s |-> "0.0.0.0/0"], [s |-> rule.dest]>>
    \o (IF rule.text = <<>> THEN <<>> ELSE <<[s |-> rule.text]>>)

\* rules[2:] of the listing: one split line per rule, in chain order
RuleLines(chain) == [n \in DOMAIN chain |-> Fields(n, chain[n])]

\* patt.match(text).group('uid') for !\sowner\sUID\smatch\s(?P<uid>\d+),
\* <<>> when there is no match
OwnerUid(text) ==
    IF StartsWith(text, OwnerPrefix)
    THEN TakeWhile(Drop(text, Len(OwnerPrefix)), DigitSet)
    ELSE <<>>

\* what a run hands on: the chain, the exception that ended the run, the
\* destinations whose delete failed, and whether a rule was inserted
Ran(chain, err, failed, inserted) ==
    [rules |-> chain, err |-> err, failed |-> failed, inserted |-> inserted]

\* lines 412-422 for one line: delete the rule when it is of uid and its
\* destination is not an existing pod IP. broken is the set of positions
\* at which iptables -D fails.
ScanLine(r, fields, uid, existing_ips, broken) ==
    IF Len(fields) < 7 THEN Ran(r.rules, ERR_INDEX, r.failed, FALSE)
    ELSE IF OwnerUid(fields[7].s) = <<>> \/ OwnerUid(fields[7].s) # uid
         THEN r
    ELSE IF fields[6].s \in existing_ips THEN r
    ELSE IF fields[1].num \in broken \/ fields[1].num \notin DOMAIN r.rules
         THEN Ran(r.rules, "", r.failed \cup {fields[6].s}, FALSE)
    ELSE Ran(DeleteRule(r.rules, fields[1].num), "", r.failed, FALSE)

\* the loop over reversed(rules[2:]), from line k down to the first
RECURSIVE ScanFrom(_, _, _, _, _, _)
ScanFrom(r, lines, k, uid, existing_ips, broken) ==
    IF k = 0 \/ r.err # "" THEN r
    ELSE ScanFrom(ScanLine(r, lines[k], uid, existing_ips, broken),
                  lines, k - 1, uid, existing_ips, broken)

\* lines 397-422: the branch of a pod that is not listed
Inactive(chain, data, uid, broken) ==
    ScanFrom(Ran(chain, "", {}, FALSE), RuleLines(chain), Len(chain), uid,
             {data[i].podIP : i \in {j \in DOMAIN data : Has(data[j], "podIP")}},
             broken)

\* Active as it would be without the return for a pod that has no address:
\* C26 must tell it from Active
ActiveUnchecked(chain, service_ip, uid) ==
    IF CheckRule(chain, uid, service_ip) THEN Ran(chain, "", {}, FALSE)
    ELSE Ran(InsertRule(chain, uid, service_ip), "", {}, TRUE)

\* lines 381-396: the branch of a listed pod, service_ip its address
Active(chain, service_ip, uid) ==
    IF service_ip = NoneStr THEN Ran(chain, "", {}, FALSE)
    ELSE IF CheckRule(chain, uid, service_ip) THEN Ran(chain, "", {}, FALSE)
    ELSE Ran(InsertRule(chain, uid, service_ip), "", {}, TRUE)

\* pod[0].get('podIP')
ServiceIp(pod) == IF Has(pod, "podIP") THEN pod.podIP ELSE NoneStr

\* postprocess for pod name and user uid, data the remote pod listing
Postprocess(chain, data, name, uid, broken) ==
    IF \E i \in DOMAIN data : data[i].name = name
    THEN Active(chain,
                ServiceIp(data[Min({i \in DOMAIN data : data[i].name = name})]),
                uid)
    ELSE Inactive(chain, data, uid, broken)

----------------------------------------------------------------------------
(* Inputs: pod names, images, command line options, remote answers          *)

NumImages == 2
NumSamples == 1
MaxOptions == 1

PodName == <<"a", "b">>
ImageList == << <<"x">>, <<"r", "/", "a">>, <<"b">> >>

\* random.sample(string.digits, 10): a permutation of the ten digits
Sample(k) == [i \in 1..10 |-> Digits[((i + k) % 10) + 1]]

ImageOptions ==
    {[image |-> ImageList[i], kubes |-> <<"2">>] : i \in 1..NumImages}
PortOptions ==
    {[container_port |-> <<"+", "4", "4", "3", ":", "8", "0", ":", "u", "d", "p",
                           ",", "8", "0">>],
     [container_port |-> <<"7", "0", "0", "0", "0">>]}
DriveOptions ==
    {[persistent_drive |-> "d1", mount_path |-> <<"/", "d">>],
     [persistent_drive |-> "d2", mount_path |-> <<>>, size |-> "1"],
     [persistent_drive |-> "d1", mount_path |-> <<"/", "d", " ">>],
     [persistent_drive |-> "d1",
      mount_path |-> [i \in 1..(MaxMountPathLen + 1) |->
                        IF i = 1 THEN "/" ELSE "a"]],
     [persistent_drive |-> "d1"]}
ScalarOptions == {[kube_type |-> "Standard", replicas |-> "1"]}

Opt(S) == S \cup {EmptyDict}
Used(t) == Cardinality({g \in DOMAIN t : t[g] # EmptyDict})
Few(combinations) == {u \in combinations : Used(u) <= MaxOptions}

\* Option dicts: an image or none, and at most MaxOptions of the other
\* groups. MergeOptions are the options about ports and environment,
\* VolumeOptions those about drives and container deletion.
MergeOptions ==
    {im @@ t[1] @@ t[2] @@ t[3] @@ t[4] @@ t[5] @@ t[6] :
        im \in Opt(ImageOptions),
        t \in Few(Opt(PortOptions)
                  \X Opt({[env |-> <<"A", ":", "1">>]})
                  \X Opt({[delete_env |-> <<"A">>]})
                  \X Opt({[delete |-> NoneSeq]})
                  \X Opt({[list_env |-> TRUE]})
                  \X Opt(ScalarOptions))}

VolumeOptions ==
    {im @@ t[1] @@ t[2] @@ t[3] :
        im \in Opt(ImageOptions),
        t \in Few(Opt(DriveOptions)
                  \X Opt({[delete |-> ImageList[1]]})
                  \X Opt(ScalarOptions))}

ArgsOf(action, options) ==
    {[name |-> PodName, action |-> action] @@ o : o \in options}

\* answers of the image query: failed or empty, or mounts and ports
PulledAnswers ==
    {EmptyDict,
     [volumeMounts |-> << <<"/", "v">> >>,
      ports |-> <<[number |-> 80, protocol |-> Tcp]>>]}
DrivesAnswers == {<<>>, <<[name |-> "d1"]>>}
KubeTypesAnswers == {[Standard |-> <<"0">>], EmptyDict}
PostAnswers == {[status |-> <<"O", "K">>], [status |-> <<"e", "r", "r">>]}

----------------------------------------------------------------------------
(* The assembler as a state machine: one action per command invocation.    *)
(* store is the containers directory; last and submitted describe the last *)
(* invocation: what it was, and the document it posted (<<>>: none).       *)

\* what the last invocation was: its command, the exception that ended
\* it and, when it returned, the image it selected, the image it was to
\* delete (NoneSeq: none) and, when it saved, the draft the object held
Last(args, r) ==
    [cmd |-> args.action, err |-> r.err,
     image |-> IF r.err = "" /\ Has(args, "image") THEN args.image
               ELSE NoneSeq,
     delete |-> IF r.err = "" /\ Has(args, "delete") THEN args.delete
                ELSE NoneSeq,
     draft |-> IF /\ r.err = ""
                  /\ args.action \in {"create", "set"}
                  /\ ~(Has(args, "list_env") /\ args.list_env)
               THEN Project(r.self, Valid)
               ELSE EmptyDict]

Init ==
    /\ store = EmptyDict
    /\ last = [cmd |-> "none", err |-> "", image |-> NoneSeq,
               delete |-> NoneSeq, draft |-> EmptyDict]
    /\ submitted = <<>>
    /\ scheduled = <<>>
    /\ running = <<>>
    /\ rules = <<>>
    /\ pods = <<>>
    /\ input = <<>>
    /\ output = <<>>

\* the state after an invocation of arguments args that ended as r
Ended(args, r, posted) ==
    /\ store' = r.store
    /\ last' = Last(args, r)
    /\ submitted' = posted
    /\ UNCHANGED <<scheduled, rules, pods, input, output, running>>

Submitted(args, r) == Ended(args, r, r.posted)

SetHandler(args) ==
    \E pulled \in IF Has(args, "image") THEN PulledAnswers ELSE {EmptyDict},
       drives \in IF Has(args, "persistent_drive") THEN DrivesAnswers
                  ELSE {<<>>},
       k1 \in 1..NumSamples, k2 \in 1..NumSamples :
        Ended(args,
              Set(store, args, pulled, drives, Sample(k1), Sample(k2)),
              <<>>)

CreateAction == \E args \in ArgsOf("create", MergeOptions) : SetHandler(args)

SetAction == \E args \in ArgsOf("set", MergeOptions) : SetHandler(args)

CreateVolumes ==
    \E args \in ArgsOf("create", VolumeOptions) : SetHandler(args)

SetVolumes == \E args \in ArgsOf("set", VolumeOptions) : SetHandler(args)

SaveAction ==
    \E kube_types \in KubeTypesAnswers, answer \in PostAnswers :
        Submitted([name |-> PodName, action |-> "save"],
                  SaveCmd(store, [name |-> PodName, action |-> "save"],
                          kube_types, answer))

ForgetAction ==
    Ended([name |-> PodName, action |-> "forget"],
          Forget(store, [name |-> PodName, action |-> "forget"]), <<>>)

Next == CreateAction \/ SetAction \/ SaveAction \/ ForgetAction

Spec == Init /\ [][Next]_vars

\* the same machine, with the options about drives and container deletion
NextVolumes == CreateVolumes \/ SetVolumes \/ SaveAction \/ ForgetAction

SpecVolumes == Init /\ [][NextVolumes]_vars

----------------------------------------------------------------------------
(* Properties of the draft assembler                                       *)

\* the entries of s at the positions of keep, in their order
Kept(s, keep) ==
    [i \in 1..Cardinality(keep) |->
       s[CHOOSE j \in keep : Cardinality({m \in keep : m < j}) = i - 1]]

\* the draft a store holds for PodName: none is an empty draft
Draft(st) ==
    IF Exists(st, DataPath(PodName)) /\ st[DataPath(PodName)].kind = "json"
    THEN st[DataPath(PodName)].doc
    ELSE [containers |-> <<>>, volumes |-> <<>>]

ImagesOf(containers) == {containers[i].image : i \in DOMAIN containers}

ValidationErrors ==
    {ERR_WRONG_PORT_FORMAT, ERR_SPECIFY_IMAGE_OPTION, ERR_MOUNT_PATH_EXPECTED,
     ERR_MOUNT_PATH_LETTERS, ERR_MOUNT_PATH_LENGTH, ERR_DRIVE_NOT_FOUND}

\* C1: a create or set invocation that ends with a validation error leaves
\* the store as it was.
C1_NoPartialPersistence ==
    [][(last'.cmd \in {"create", "set"} /\ last'.err \in ValidationErrors)
       => store' = store]_vars

PodDraftFields == {"name", "containers", "volumes", "replicas", "kube_type",
                   "restartPolicy", "public_ip", "service"}

DistinctImages(containers) ==
    \A i, j \in DOMAIN containers :
        containers[i].image = containers[j].image => i = j

\* the containers an invocation that deletes image del is to leave
Surviving(containers, del) ==
    {i \in DOMAIN containers : containers[i].image # del}

\* C3 as stated: the draft holds one container per image; an invocation
\* that selects an image of the draft adds no container, one that selects
\* a new image adds exactly one, of that image.
C3_AsStated ==
    [][(last'.cmd \in {"create", "set"} /\ last'.image # NoneSeq)
       => /\ DistinctImages(Draft(store').containers)
          /\ last'.image \in ImagesOf(Draft(store).containers)
             => /\ Len(Draft(store').containers)
                   <= Len(Draft(store).containers)
                /\ last'.image \in ImagesOf(Draft(store').containers)
          /\ last'.image \notin ImagesOf(Draft(store).containers)
             => /\ Len(Draft(store').containers)
                   = Len(Draft(store).containers) + 1
                /\ Draft(store').containers[Len(Draft(store').containers)]
                     .image = last'.image]_vars

\* C3 amended: the draft holds one container per image; an invocation
\* that saves and does not delete the image it selects leaves exactly
\* one container of that image: none is added when the draft had one, and
\* one is added after the others when it had none. The containers of the
\* image the invocation deletes are gone.
C3_ContainerIdentity ==
    [][(last'.cmd \in {"create", "set"} /\ last'.draft # EmptyDict)
       => /\ DistinctImages(Draft(store').containers)
          /\ (last'.image # NoneSeq /\ last'.delete # last'.image)
             => /\ Cardinality({i \in DOMAIN Draft(store').containers :
                       Draft(store').containers[i].image = last'.image}) = 1
                /\ last'.image \in ImagesOf(Draft(store).containers)
                   => Len(Draft(store').containers)
                      = Cardinality(Surviving(Draft(store).containers,
                                              last'.delete))
                /\ last'.image \notin ImagesOf(Draft(store).containers)
                   => /\ Len(Draft(store').containers)
                         = Cardinality(Surviving(Draft(store).containers,
                                                 last'.delete)) + 1
                      /\ Draft(store').containers
                           [Len(Draft(store').containers)].image
                         = last'.image]_vars

\* C3 witness: an invocation selected an image and the draft holds two
\* containers, of two images
C3_Witness ==
    /\ last.cmd = "set"
    /\ last.err = ""
    /\ last.image # NoneSeq
    /\ Len(Draft(store).containers) = 2
    /\ Cardinality(ImagesOf(Draft(store).containers)) = 2

MountsOf(container) ==
    IF Has(container, "volumeMounts") THEN container.volumeMounts ELSE <<>>

\* the positions of the mounts that have a mount path and a name
Resolved(mounts) ==
    {j \in DOMAIN mounts :
       /\ "mountPath" \in DOMAIN mounts[j] /\ mounts[j].mountPath # <<>>
       /\ "name" \in DOMAIN mounts[j] /\ mounts[j].name # <<>>}

\* C8: the document save submits has the containers of the stored draft,
\* each with exactly its mounts that have both a mount path and a name,
\* in their order.
C8_DanglingMountsDropped ==
    [][(last'.cmd = "save" /\ submitted' # <<>>)
       => /\ Len(submitted'[1].containers) = Len(Draft(store).containers)
          /\ \A i \in DOMAIN Draft(store).containers :
                /\ submitted'[1].containers[i].volumeMounts
                   = Kept(MountsOf(Draft(store).containers[i]),
                          Resolved(MountsOf(Draft(store).containers[i])))
                /\ Resolved(submitted'[1].containers[i].volumeMounts)
                   = DOMAIN submitted'[1].containers[i].volumeMounts]_vars

\* C8 witness: save submitted a document (the remote answer was not OK, so
\* the draft is still stored) in which a container kept a mount of the
\* draft and lost another
C8_Witness ==
    /\ last.cmd = "save"
    /\ submitted # <<>>
    /\ \E i \in DOMAIN Draft(store).containers :
          /\ i \in DOMAIN submitted[1].containers
          /\ Len(submitted[1].containers[i].volumeMounts) >= 1
          /\ Len(MountsOf(Draft(store).containers[i]))
             > Len(submitted[1].containers[i].volumeMounts)

\* what C10 says stays of a container: its name, kubes, ports, env and
\* named volume mounts
Frame(container) ==
    [image |-> container.image,
     rest |-> Project(container, {"name", "kubes", "ports", "env"}),
     mounts |-> Kept(MountsOf(container),
                     {j \in DOMAIN MountsOf(container) :
                        /\ "name" \in DOMAIN MountsOf(container)[j]
                        /\ MountsOf(container)[j].name # <<>>})]

Frames(containers, keep) ==
    Kept([i \in DOMAIN containers |-> Frame(containers[i])], keep)

\* C10: an invocation that saves, selects image X and deletes no image
\* leaves the containers of the other images as they were and in their
\* order, and a container it adds comes after them.
C10_OtherContainersUnchanged ==
    [][(/\ last'.cmd \in {"create", "set"}
        /\ last'.draft # EmptyDict
        /\ last'.image # NoneSeq
        /\ last'.delete = NoneSeq)
       => /\ Frames(Draft(store').containers,
                    Surviving(Draft(store').containers, last'.image))
             = Frames(Draft(store).containers,
                      Surviving(Draft(store).containers, last'.image))
          /\ last'.image \notin ImagesOf(Draft(store).containers)
             => /\ Len(Draft(store').containers)
                   = Len(Draft(store).containers) + 1
                /\ Draft(store').containers
                     [Len(Draft(store').containers)].image = last'.image
                /\ \A i \in DOMAIN Draft(store).containers :
                      Draft(store').containers[i].image
                      = Draft(store).containers[i].image]_vars

----------------------------------------------------------------------------
(* The reconciler as a state machine: one action per run of postprocess,   *)
(* on the chain an administrator and earlier runs left, against a remote   *)
(* pod listing.                                                            *)

MaxRules == 2
MaxPods == 2

Uids == {<<"1">>, <<"1", "0">>}
Ips == {"10.0.0.5", "10.0.0.9"}
FwPodNames == {"p", "q"}

\* rules other programs put in the chain: one with option text that names
\* no owner, one with no option text
ForeignRules ==
    {[target |-> "ACCEPT", dest |-> "10.0.0.5",
      text |-> <<"t", "c", "p", " ", "d", "p", "t", ":", "8", "0">>],
     [target |-> "ACCEPT", dest |-> "0.0.0.0/0", text |-> <<>>]}


SeqsUpTo(S, n) == UNION {[1..k -> S] : k \in 0..n}

Chains ==
    SeqsUpTo({ExemptRule(u, d) : u \in Uids, d \in Ips} \cup ForeignRules,
             MaxRules)

\* pods of the remote listing: with an address, or not yet given one
PodSet == {[name |-> n, podIP |-> d] : n \in FwPodNames, d \in Ips}
          \cup {[name |-> n] : n \in FwPodNames}

Listings == SeqsUpTo(PodSet, MaxPods)

\* what the last run was: its pod and user, the exception that ended it
\* ("" when it returned), the destinations whose delete failed, and
\* whether it inserted a rule
LastRun(name, uid, r) ==
    [cmd |-> "postprocess", name |-> name, uid |-> uid, err |-> r.err,
     failed |-> r.failed, inserted |-> r.inserted]

InitFw ==
    /\ store = EmptyDict
    /\ last = [cmd |-> "none", name |-> "", uid |-> <<>>, err |-> "",
               failed |-> {}, inserted |-> FALSE]
    /\ submitted = <<>>
    /\ scheduled = <<>>
    /\ running = <<>>
    /\ rules \in Chains
    /\ pods \in Listings
    /\ input = <<>>
    /\ output = <<>>

RunEnded(name, uid, r) ==
    /\ rules' = r.rules
    /\ last' = LastRun(name, uid, r)
    /\ UNCHANGED <<store, submitted, scheduled, pods, input, output, running>>

\* a run for a pod of the listing
ReconcileListed ==
    \E i \in DOMAIN pods, uid \in Uids :
        RunEnded(pods[i].name, uid,
                 Postprocess(rules, pods, pods[i].name, uid, {}))

\* a run for a pod that is not in the listing; broken: the positions at
\* which iptables -D fails
ReconcileGone ==
    \E name \in FwPodNames, uid \in Uids, broken \in {{}, {1}, {2}} :
        /\ \A i \in DOMAIN pods : pods[i].name # name
        /\ RunEnded(name, uid, Postprocess(rules, pods, name, uid, broken))

NextFw == ReconcileListed \/ ReconcileGone

SpecFw == InitFw /\ [][NextFw]_vars

----------------------------------------------------------------------------
(* Properties of the reconciler                                            *)

\* the address the listing gives for the pod of the last run, NoneStr when
\* the pod is not listed or has none
ListedIp(data, name) ==
    IF \E i \in DOMAIN data : data[i].name = name
    THEN ServiceIp(data[Min({i \in DOMAIN data : data[i].name = name})])
    ELSE NoneStr

IsListed(data, name) == \E i \in DOMAIN data : data[i].name = name

\* how many rules of the chain exempt uid's traffic to dest
Exemptions(chain, uid, dest) ==
    Cardinality({i \in DOMAIN chain : chain[i] = ExemptRule(uid, dest)})

\* C5: a run for a listed pod with an address inserts the exemption rule
\* of (uid, address) at the head of the chain when the chain has none, and
\* leaves the chain as it is when it has one; so from a chain with at most
\* one such rule every run leaves exactly one.
C5_ActiveBranch ==
    [][(last'.cmd = "postprocess" /\ ListedIp(pods, last'.name) # NoneStr)
       => /\ Exemptions(rules, last'.uid, ListedIp(pods, last'.name)) = 0
             => rules' = <<ExemptRule(last'.uid,
                                      ListedIp(pods, last'.name))>> \o rules
          /\ Exemptions(rules, last'.uid, ListedIp(pods, last'.name)) > 0
             => rules' = rules
          /\ Exemptions(rules, last'.uid, ListedIp(pods, last'.name)) <= 1
             => Exemptions(rules', last'.uid,
                           ListedIp(pods, last'.name)) = 1]_vars

\* C5 witness: a run has inserted the rule of its pod in front of the rules
\* that were there
C5_Witness ==
    /\ last.cmd = "postprocess"
    /\ last.inserted
    /\ Len(rules) > 1
    /\ ListedIp(pods, last.name) # NoneStr
    /\ rules[1] = ExemptRule(last.uid, ListedIp(pods, last.name))
    /\ Exemptions(rules, last.uid, ListedIp(pods, last.name)) = 1

\* the rules of uid whose destination no listed pod has
StaleRules(chain, data, uid) ==
    {i \in DOMAIN chain :
       \E d \in Ips : /\ chain[i] = ExemptRule(uid, d)
                      /\ \A j \in DOMAIN data : ServiceIp(data[j]) # d}

\* C6: a run for a pod that is not listed, in which no delete failed,
\* removes exactly the stale rules of its user: the chain afterwards is
\* the chain before without them, every other rule in place and in order.
C6_InactiveBranch ==
    [][(/\ last'.cmd = "postprocess"
        /\ ~IsListed(pods, last'.name)
        /\ last'.failed = {})
       => rules' = Filter(rules, DOMAIN rules
                                   \ StaleRules(rules, pods, last'.uid))]_vars

----------------------------------------------------------------------------
(* _prepare_ports and _prepare_env on their own: input is a draft with two *)
(* containers and what the option is to say; the action renders the option *)
(* text, applies the step to the object and records what it hands on.      *)

MaxTokens == 2
MaxItems == 2

NoPort == 0 - 1

\* what a port token is to say: junk is text put after it
Token(public, container, host, protocol, junk) ==
    [public |-> public, container |-> container, host |-> host,
     protocol |-> protocol, junk |-> junk]

PortTokens ==
    {Token(FALSE, 80, NoPort, <<>>, <<>>),
     Token(TRUE, 443, 80, Udp, <<>>),
     Token(FALSE, 65535, 1, Tcp, <<>>),
     Token(TRUE, 1, NoPort, Udp, <<>>),
     Token(FALSE, 0, NoPort, <<>>, <<>>),
     Token(FALSE, 65536, NoPort, <<>>, <<>>),
     Token(TRUE, 80, 0, <<>>, <<>>),
     Token(FALSE, 80, 65536, Tcp, <<>>),
     Token(FALSE, 80, 443, <<"s", "c", "t", "p">>, <<>>),
     Token(FALSE, 80, 8, <<>>, <<"a">>)}

\* the text of a token: [+]container[:host][:protocol]
TokenText(t) ==
    (IF t.public THEN <<"+">> ELSE <<>>)
    \o IntToStr(t.container)
    \o (IF t.host = NoPort THEN <<>> ELSE <<":">> \o IntToStr(t.host))
    \o t.junk
    \o (IF t.protocol = <<>> THEN <<>> ELSE <<":">> \o t.protocol)

\* the draft the steps are applied to: ImageList[1] is selected
OldPorts == <<[isPublic |-> TRUE, containerPort |-> 22, hostPort |-> 22,
               protocol |-> Tcp]>>

EnvEntries ==
    {[name |-> n, value |-> v] : n \in {<<"A">>, <<"B">>},
                                 v \in {<<"1">>, <<"2">>}}

UniqueNames(env) ==
    \A i, j \in DOMAIN env : env[i].name = env[j].name => i = j

\* env lists with no name twice
EnvLists == {e \in SeqsUpTo(EnvEntries, MaxItems) : UniqueNames(e)}

PureSelf(env, other) ==
    [name |-> PodName, action |-> "set", image |-> ImageList[1],
     volumes |-> <<>>,
     containers |->
       <<[image |-> ImageList[2], name |-> <<"a", "0">>, ports |-> OldPorts,
          env |-> other],
         [image |-> ImageList[1], name |-> <<"x", "0">>, ports |-> OldPorts,
          env |-> env]>>]

InitPure(inputs) ==
    /\ store = EmptyDict
    /\ last = [cmd |-> "none", err |-> ""]
    /\ submitted = <<>>
    /\ scheduled = <<>>
    /\ running = <<>>
    /\ rules = <<>>
    /\ pods = <<>>
    /\ input \in inputs
    /\ output = <<>>

\* the step has run: output holds what it handed on
Applied(cmd, r) ==
    /\ output = <<>>
    /\ output' = <<r>>
    /\ last' = [cmd |-> cmd, err |-> r.err]
    /\ UNCHANGED <<store, submitted, scheduled, rules, pods, input, running>>

PortInputs ==
    {[tokens |-> t] : t \in SeqsUpTo(PortTokens, MaxTokens) \ {<<>>}}

PortsArg(tokens) ==
    Join([i \in DOMAIN tokens |-> TokenText(tokens[i])], <<",">>)

ApplyPorts ==
    Applied("ports",
            PreparePorts(Update(PureSelf(<<>>, <<>>),
                                [container_port |-> PortsArg(input.tokens)])))

SpecPorts == InitPure(PortInputs) /\ [][ApplyPorts]_vars

\* what an --env item is to say: a name and a value, or a text without ':'
EnvItems == EnvEntries \cup {[name |-> <<"C">>, value |-> NoneSeq]}

ItemText(item) ==
    IF item.value = NoneSeq THEN item.name
    ELSE item.name \o <<":">> \o item.value

EnvInputs ==
    {[env |-> e, other |-> o, items |-> i] :
        e \in EnvLists, o \in {<<>>, <<[name |-> <<"A">>, value |-> <<"1">>]>>},
        i \in SeqsUpTo(EnvItems, MaxItems) \ {<<>>}}

EnvArg(items) == Join([i \in DOMAIN items |-> ItemText(items[i])], <<",">>)

\* --env once
ApplyEnv ==
    Applied("env",
            PrepareEnv(Update(PureSelf(input.env, input.other),
                              [env |-> EnvArg(input.items)])))

\* --env in two invocations with the same text
ApplyEnvTwice ==
    Applied("env twice",
            ThenEnv(PrepareEnv(Update(PureSelf(input.env, input.other),
                                      [env |-> EnvArg(input.items)]))))

\* --delete-env of the names of the items
ApplyDeleteEnv ==
    Applied("delete_env",
            PrepareEnv(Update(PureSelf(input.env, input.other),
                              [delete_env |->
                                 Join([i \in DOMAIN input.items |->
                                         input.items[i].name], <<",">>)])))

NextEnv == ApplyEnv \/ ApplyEnvTwice \/ ApplyDeleteEnv

SpecEnv == InitPure(EnvInputs) /\ [][NextEnv]_vars

----------------------------------------------------------------------------
(* Properties of _prepare_ports and _prepare_env                           *)

\* the container the steps are applied to, and the other one
Selected(self) == self.containers[2]
Other(self) == self.containers[1]

\* what the grammar and the range [1, 65536) admit
ValidToken(t) ==
    /\ t.container >= 1 /\ t.container < 65536
    /\ t.host = NoPort \/ (t.host >= 1 /\ t.host < 65536)
    /\ t.protocol \in {<<>>, Tcp, Udp}
    /\ t.junk = <<>>

\* the port a valid token stands for
PortOf(t) ==
    [isPublic |-> t.public,
     containerPort |-> t.container,
     hostPort |-> IF t.host = NoPort THEN t.container ELSE t.host,
     protocol |-> IF t.protocol = <<>> THEN Tcp ELSE t.protocol]

\* C7: when every token of the argument is valid the ports of the selected
\* container become the ports the tokens stand for, in order, in place of
\* the ports it had, and the other container keeps its own; when a token
\* is not valid the step ends with the format error.
C7_PortParsing ==
    last.cmd = "ports"
    => IF \A i \in DOMAIN input.tokens : ValidToken(input.tokens[i])
       THEN /\ output[1].err = ""
            /\ Selected(output[1].self).ports
               = [i \in DOMAIN input.tokens |-> PortOf(input.tokens[i])]
            /\ Other(output[1].self) = Other(PureSelf(<<>>, <<>>))
       ELSE output[1].err = ERR_WRONG_PORT_FORMAT

\* C7 witness: an argument of two valid tokens, the first public with a
\* host port and a protocol, the second with neither, was parsed
C7_Witness ==
    /\ last.cmd = "ports"
    /\ output[1].err = ""
    /\ Len(input.tokens) = 2
    /\ input.tokens[1].public /\ input.tokens[1].host # NoPort
    /\ input.tokens[1].protocol = Udp
    /\ input.tokens[2].host = NoPort /\ input.tokens[2].protocol = <<>>
    /\ Len(Selected(output[1].self).ports) = 2

\* the env list one --env of the input's items gives
EnvOnce ==
    Selected(PrepareEnv(Update(PureSelf(input.env, input.other),
                               [env |-> EnvArg(input.items)])).self).env

\* C4: --env twice with the same text gives the env list --env once
\* gives, and that list has no name twice.
C4_EnvAddIdempotent ==
    last.cmd \in {"env", "env twice"}
    => /\ Selected(output[1].self).env = EnvOnce
       /\ UniqueNames(Selected(output[1].self).env)

\* C9: --delete-env leaves, of the env list of the selected container,
\* exactly the entries whose name is not among the names given, in their
\* order, and leaves the other container as it was.
C9_EnvDelete ==
    last.cmd = "delete_env"
    => /\ output[1].err = ""
       /\ Selected(output[1].self).env
          = Kept(input.env,
                 {i \in DOMAIN input.env :
                    \A j \in DOMAIN input.items :
                       input.items[j].name # input.env[i].name})
       /\ Other(output[1].self) = Other(PureSelf(input.env, input.other))

\* C9 witness: of a list of two entries the first was deleted and the
\* second kept, and the other container still has an entry of the deleted
\* name
C9_Witness ==
    /\ last.cmd = "delete_env"
    /\ Len(input.env) = 2
    /\ Selected(output[1].self).env = <<input.env[2]>>
    /\ \E j \in DOMAIN input.items : input.items[j].name = input.env[1].name
    /\ Other(output[1].self).env # <<>>
    /\ Other(output[1].self).env[1].name = input.env[1].name

----------------------------------------------------------------------------
(* Commands on a damaged draft file: the file of the pod name holds        *)
(* something _load cannot take for a draft, one command runs on it, and    *)
(* output records what _load gave and what the same invocation gives when  *)
(* there is no file.                                                       *)

\* an empty file, text that is no JSON, a half-written document, a JSON
\* list and a JSON scalar
DamagedFiles ==
    {EmptyFile, TextFile, HalfWritten,
     JsonValue(<<"[", "]">>), JsonValue(<<"1">>)}

PlainArgs(action) == [name |-> PodName, action |-> action]

DamagedCommands ==
    ArgsOf("create", MergeOptions) \cup ArgsOf("set", MergeOptions)
    \cup {PlainArgs("describe"), PlainArgs("save"), PlainArgs("forget")}

DamagedInputs ==
    {[content |-> c, args |-> a] : c \in DamagedFiles, a \in DamagedCommands}

InitDamaged ==
    /\ input \in DamagedInputs
    /\ store = WriteFile(EmptyDict, DataPath(PodName), input.content)
    /\ last = [cmd |-> "none", err |-> ""]
    /\ submitted = <<>>
    /\ scheduled = <<>>
    /\ running = <<>>
    /\ rules = <<>>
    /\ pods = <<>>
    /\ output = <<>>

\* the invocation has ended as r on the damaged file and as twin on the
\* store without the file
Compared(r, twin, posted) ==
    /\ output = <<>>
    /\ store' = r.store
    /\ last' = [cmd |-> input.args.action, err |-> r.err]
    /\ submitted' = posted
    /\ output' = <<[load |-> Load(store, input.args),
                    err |-> twin.err, store |-> twin.store]>>
    /\ UNCHANGED <<scheduled, rules, pods, input, running>>

\* create or set: the remote answers are the same for both runs
DamagedSetHandler ==
    \E pulled \in IF Has(input.args, "image") THEN PulledAnswers
                  ELSE {EmptyDict} :
        Compared(Set(store, input.args, pulled, <<>>, Sample(1), Sample(1)),
                 Set(EmptyDict, input.args, pulled, <<>>, Sample(1), Sample(1)),
                 <<>>)

DamagedCreate == input.args.action = "create" /\ DamagedSetHandler

DamagedSet == input.args.action = "set" /\ DamagedSetHandler

DamagedDescribe ==
    /\ input.args.action = "describe"
    /\ Compared(Describe(store, input.args), Describe(EmptyDict, input.args),
                <<>>)

DamagedSave ==
    /\ input.args.action = "save"
    /\ \E kube_types \in KubeTypesAnswers, answer \in PostAnswers :
         Compared(SaveCmd(store, input.args, kube_types, answer),
                  SaveCmd(EmptyDict, input.args, kube_types, answer),
                  SaveCmd(store, input.args, kube_types, answer).posted)

DamagedForget ==
    /\ input.args.action = "forget"
    /\ Compared(Forget(store, input.args), Forget(EmptyDict, input.args), <<>>)

NextDamaged ==
    DamagedCreate \/ DamagedSet \/ DamagedDescribe \/ DamagedSave
    \/ DamagedForget

SpecDamaged == InitDamaged /\ [][NextDamaged]_vars

\* C11: whatever the draft file holds (nothing, text that is no JSON, a
\* half-written document, a JSON list or scalar), _load raises nothing and
\* reports the draft as absent
C11_LoadNeverFails ==
    output # <<>> =>
        /\ output[1].load.err = ""
        /\ ~output[1].load.self._initialized

\* the drafts a store holds: the files _load can read
ReadableDrafts(st) ==
    [p \in {q \in DOMAIN st : st[q].kind = "json"} |-> st[p].doc]

\* C20: a command on a draft file that cannot be read ends as the same
\* command with no draft file: both succeed or both fail, and the stores
\* afterwards hold the same drafts
C20_DamagedAsAbsent ==
    output # <<>> =>
        /\ (last.err = "") = (output[1].err = "")
        /\ ReadableDrafts(store) = ReadableDrafts(output[1].store)

----------------------------------------------------------------------------
(* The store with drafts of several pod names: create, forget and list     *)

\* pod names: the URL-safe base64 of the second has a '_'
Names == {PodName, <<"?", "?", "?">>, <<"a">>}

\* create with an image, and with a port option that fails validation
NamedOptions == ImageOptions \cup {[container_port |-> <<"7", "0">>]}

\* what the last invocation was; output holds the names list gave
LastNamed(args, r) ==
    [cmd |-> args.action, err |-> r.err,
     name |-> IF Has(args, "name") THEN args.name ELSE <<>>]

NamedEnded(args, r, listed) ==
    /\ store' = r.store
    /\ last' = LastNamed(args, r)
    /\ output' = listed
    /\ UNCHANGED <<submitted, scheduled, rules, pods, input, running>>

CreateNamed ==
    \E name \in Names, o \in NamedOptions :
        NamedEnded([name |-> name, action |-> "create"] @@ o,
                   Set(store, [name |-> name, action |-> "create"] @@ o,
                       EmptyDict, <<>>, Sample(1), Sample(1)),
                   <<>>)

ForgetNamed ==
    \E name \in Names :
        NamedEnded([name |-> name, action |-> "forget"],
                   Forget(store, [name |-> name, action |-> "forget"]), <<>>)

ListNamed ==
    NamedEnded([action |-> "list"], ListCmd(store, [action |-> "list"]),
               <<ListCmd(store, [action |-> "list"]).names>>)

NextNames == CreateNamed \/ ForgetNamed \/ ListNamed

SpecNames == Init /\ [][NextNames]_vars

\* the pod names that have a file in the store
StoredNames(st) == {n \in Names : Exists(st, DataPath(n))}

\* C12: list ends without an error and gives exactly the names under
\* which a draft file is stored, each as it was given to create
C12_ListInvertsNaming ==
    last.cmd = "list" => /\ last.err = ""
                         /\ output = <<StoredNames(store)>>

\* C13: forget of a name that has a draft file removes this file and no
\* other; forget of a name that has none fails and leaves the store as it
\* was
C13_ForgetOne ==
    [][last'.cmd = "forget" =>
         IF Exists(store, DataPath(last'.name))
         THEN /\ last'.err = ""
              /\ DOMAIN store' = (DOMAIN store) \ {DataPath(last'.name)}
              /\ \A p \in DOMAIN store' : store'[p] = store[p]
         ELSE /\ last'.err # ""
              /\ store' = store]_vars

\* C13 witness: a forget removed the draft of one name and the draft of
\* another name is still stored
C13_Witness ==
    /\ last.cmd = "forget"
    /\ last.err = ""
    /\ \E n \in Names : n # last.name /\ Exists(store, DataPath(n))
                        /\ store[DataPath(n)].kind = "json"

----------------------------------------------------------------------------
(* Submission and pod deletion against the remote API: store holds the     *)
(* drafts, pods is the remote pod listing, scheduled the reconciliations   *)
(* given to the host's job scheduler and not yet run.                      *)

MaxScheduled == 2

\* create with an image and with or without a kube type, and with a port
\* option that fails validation
SubmitOptions ==
    {im @@ k : im \in ImageOptions,
               k \in Opt(ScalarOptions \cup {[kube_type |-> "High"]})}
    \cup {[container_port |-> <<"7", "0">>]}

\* the remote table of kube types: symbol to id
SubmitTables ==
    KubeTypesAnswers \cup {[Standard |-> <<"1", "2">>], [Tiny |-> <<"3">>]}

TokenOptions == Opt({[token |-> "t"], [token |-> "None"]})
TokenAnswers == {[token |-> "t"], EmptyDict}

\* what the last invocation was and, for save, what the remote side
\* answered: the table of kube types and the answer to the submission
LastSubmit(args, err, kube_types, answer) ==
    [cmd |-> args.action, err |-> err, name |-> args.name,
     kube_types |-> kube_types, answer |-> answer]

DraftCreate ==
    \E o \in SubmitOptions :
        /\ store' = Set(store, PlainArgs("create") @@ o, EmptyDict, <<>>,
                        Sample(1), Sample(1)).store
        /\ last' = LastSubmit(PlainArgs("create"),
                              Set(store, PlainArgs("create") @@ o, EmptyDict,
                                  <<>>, Sample(1), Sample(1)).err,
                              EmptyDict, EmptyDict)
        /\ submitted' = <<>>
        /\ UNCHANGED <<scheduled, rules, pods, input, output, running>>

\* save: the remote side takes the pod when it answers OK
SubmitEnded(r, kube_types, answer) ==
    /\ store' = r.store
    /\ last' = LastSubmit(PlainArgs("save"), r.err, kube_types, answer)
    /\ submitted' = r.posted
    /\ pods' = IF r.posted # <<>> /\ r.err = ""
               THEN Append(pods, [name |-> PodName, id |-> "1"])
               ELSE pods
    /\ UNCHANGED <<scheduled, rules, input, output, running>>

SubmitDraft ==
    \E kube_types \in SubmitTables, answer \in PostAnswers :
        /\ Len(pods) < MaxPods
        /\ SubmitEnded(SaveCmd(store, PlainArgs("save"), kube_types, answer),
                       kube_types, answer)

DeleteEnded(args, r) ==
    /\ pods' = r.pods
    /\ scheduled' = r.scheduled
    /\ last' = LastSubmit(args, r.err, EmptyDict, EmptyDict)
    /\ submitted' = <<>>
    /\ UNCHANGED <<store, rules, input, output, running>>

DeletePod ==
    \E t \in TokenOptions, delete_ok \in BOOLEAN,
       token_answer \in TokenAnswers, at_ok \in BOOLEAN :
        /\ Len(scheduled) < MaxScheduled
        /\ DeleteEnded(PlainArgs("delete") @@ t,
                       PodDelete(pods, scheduled, PlainArgs("delete") @@ t,
                                 delete_ok, token_answer, at_ok))

\* the job scheduler runs the oldest reconciliation
RunScheduled ==
    /\ scheduled # <<>>
    /\ scheduled' = Tail(scheduled)
    /\ last' = LastSubmit([action |-> "postprocess", name |-> Head(scheduled)],
                          "", EmptyDict, EmptyDict)
    /\ submitted' = <<>>
    /\ UNCHANGED <<store, rules, pods, input, output, running>>

NextSubmit == DraftCreate \/ SubmitDraft \/ DeletePod \/ RunScheduled

SpecSubmit == Init /\ [][NextSubmit]_vars

\* C14: a save that submitted the draft, and a pod deletion that went
\* through, has scheduled one reconciliation for the pod name when it
\* returns; a command that did not change the remote side scheduled none
C14_TwoPhase ==
    [][/\ (last'.cmd \in {"save", "delete"} /\ last'.err = "")
          => scheduled' = Append(scheduled, last'.name)
       /\ (last'.cmd \in {"save", "delete"} /\ pods' = pods)
          => scheduled' = scheduled]_vars

\* the draft file of PodName holds a document _load can read
Readable(st) ==
    Exists(st, DataPath(PodName)) /\ st[DataPath(PodName)].kind = "json"

\* C15: save of a readable draft whose kube type is not a symbol of the
\* remote table (or that has none) ends with the kube type error, submits
\* nothing and leaves the store as it was; otherwise the document it
\* submits carries the id the table gives for the symbol
C15_KubeTypeTranslation ==
    [][(last'.cmd = "save" /\ Readable(store)) =>
         IF Has(Draft(store), "kube_type")
            /\ Has(last'.kube_types, Draft(store).kube_type)
         THEN /\ submitted' # <<>>
              /\ submitted'[1].kube_type
                 = ParseInt(last'.kube_types[Draft(store).kube_type])
         ELSE /\ last'.err = ERR_INVALID_KUBE_TYPE
              /\ submitted' = <<>>
              /\ store' = store]_vars

\* C15 witness: a save ended with the kube type error on a draft that has
\* a kube type, and the draft is still stored
C15_Witness ==
    /\ last.cmd = "save"
    /\ last.err = ERR_INVALID_KUBE_TYPE
    /\ Readable(store)
    /\ Has(Draft(store), "kube_type")
    /\ last.kube_types # EmptyDict

\* C16: save removes the draft file exactly when it submitted the draft
\* and the answer was OK; another answer makes save fail with the store as
\* it was; with no readable draft save fails and submits nothing
C16_ClearedIffOk ==
    [][last'.cmd = "save" =>
         /\ (store' # store)
            = (submitted' # <<>> /\ Lower(last'.answer.status) = <<"o", "k">>)
         /\ store' # store => store' = Unlink(store, DataPath(PodName))
         /\ (submitted' # <<>> /\ Lower(last'.answer.status) # <<"o", "k">>)
            => last'.err # ""
         /\ ~Readable(store) => (last'.err # "" /\ submitted' = <<>>)]_vars

\* C16 witness: a submission was answered with another status than OK and
\* the draft is still stored
C16_Witness ==
    /\ last.cmd = "save"
    /\ submitted # <<>>
    /\ last.err # ""
    /\ Readable(store)

----------------------------------------------------------------------------
(* Binding persistent drives: create and set with an image and a drive     *)
(* bound to a mount path that passes the checks of _prepare_volumes.       *)

\* a drive the remote side may have, a drive to be created with a size,
\* and a path the pulled image data has a mount for
BindOptions ==
    {[persistent_drive |-> "d1", mount_path |-> <<"/", "d">>],
     [persistent_drive |-> "d2", mount_path |-> <<"/", "d">>, size |-> "1"],
     [persistent_drive |-> "d1", mount_path |-> <<"/", "v">>]}

BindArgs(action) ==
    {PlainArgs(action) @@ im @@ d : im \in ImageOptions, d \in Opt(BindOptions)}

\* what the last invocation was, with its arguments and the drives the
\* remote side listed
LastBind(args, r, drives) ==
    [cmd |-> args.action, err |-> r.err, args |-> args, drives |-> drives]

BindHandler(args) ==
    \E pulled \in PulledAnswers,
       drives \in IF Has(args, "persistent_drive") THEN DrivesAnswers
                  ELSE {<<>>},
       k \in 1..NumSamples :
        /\ store' = Set(store, args, pulled, drives, Sample(k), Sample(k)).store
        /\ last' = LastBind(args,
                            Set(store, args, pulled, drives, Sample(k),
                                Sample(k)),
                            drives)
        /\ submitted' = <<>>
        /\ UNCHANGED <<scheduled, rules, pods, input, output, running>>

CreateBind == \E args \in BindArgs("create") : BindHandler(args)

SetBind == \E args \in BindArgs("set") : BindHandler(args)

NextBind == CreateBind \/ SetBind \/ ForgetAction

SpecBind == Init /\ [][NextBind]_vars

\* the invocation was to bind a drive that exists remotely or is given a
\* size
Binds(l) ==
    /\ l.cmd \in {"create", "set"}
    /\ Has(l.args, "persistent_drive")
    /\ \/ Has(l.args, "size")
       \/ \E i \in DOMAIN l.drives : l.drives[i].name = l.args.persistent_drive

\* the mounts of the container of an image in a draft, <<>> when the draft
\* has no such container
MountsAt(draft, image, path) ==
    LET at == ImageIndexes(draft.containers, image)
        c == draft.containers[Min(at)]
    IN  IF at = {} \/ ~Has(c, "volumeMounts") THEN <<>>
        ELSE Filter(c.volumeMounts,
                    {j \in DOMAIN c.volumeMounts :
                       Has(c.volumeMounts[j], "mountPath")
                       /\ c.volumeMounts[j].mountPath = path})

VolumesNamed(draft, name) ==
    Filter(draft.volumes,
           {k \in DOMAIN draft.volumes : draft.volumes[k].name = name})

\* C17: after an invocation that returned and was to bind a drive, the
\* selected container has exactly one mount of the mount path, the mount
\* has a name, and exactly one volume has this name, with the drive as its
\* pdName; a mount of the path that had a name keeps it, and then no
\* volume is added
C17_DriveBind ==
    [][(Binds(last') /\ last'.err = "") =>
         LET mounts == MountsAt(Draft(store'), last'.args.image,
                                last'.args.mount_path)
             before == MountsAt(Draft(store), last'.args.image,
                                last'.args.mount_path)
         IN  /\ Len(mounts) = 1
             /\ HasName(mounts[1])
             /\ Len(VolumesNamed(Draft(store'), mounts[1].name)) = 1
             /\ VolumesNamed(Draft(store'), mounts[1].name)[1]
                  .persistentDisk.pdName = last'.args.persistent_drive
             /\ (before # <<>> /\ HasName(before[1]))
                => /\ mounts[1].name = before[1].name
                   /\ Len(Draft(store').volumes) = Len(Draft(store).volumes)]_vars

----------------------------------------------------------------------------
(* Two runs of postprocess at once on one host, for different pods. Every  *)
(* request to the remote side and every iptables command is one step;      *)
(* running[p] is the run's position and what it holds in its variables.    *)

RaceNames == <<"p", "q">>

NewRun(name, uid) ==
    [pc |-> "pods", name |-> name, uid |-> uid, data |-> <<>>,
     service_ip |-> NoneStr, lines |-> <<>>, k |-> 0, err |-> "",
     deleted |-> {}]

InitRace ==
    /\ store = EmptyDict
    /\ last = [cmd |-> "none", err |-> ""]
    /\ submitted = <<>>
    /\ scheduled = <<>>
    /\ rules \in Chains
    /\ pods \in Listings
    /\ input = <<>>
    /\ output = <<>>
    /\ running \in {<<NewRun(RaceNames[1], u1), NewRun(RaceNames[2], u2)>> :
                      u1 \in Uids, u2 \in Uids}

\* run p has taken a step that left it as run and the chain as chain
Stepped(p, run, chain) ==
    /\ running' = [running EXCEPT ![p] = run]
    /\ rules' = chain
    /\ UNCHANGED <<store, last, submitted, scheduled, pods, input, output>>

\* existing_ips, line 398
ExistingIps(data) ==
    {data[i].podIP : i \in {j \in DOMAIN data : Has(data[j], "podIP")}}

\* lines 378-383: the pod listing is fetched and the branch chosen
FetchPods(p) ==
    /\ running[p].pc = "pods"
    /\ Stepped(p,
               [running[p] EXCEPT
                  !.data = pods,
                  !.service_ip = ListedIp(pods, running[p].name),
                  !.pc = IF ~IsListed(pods, running[p].name) THEN "rules"
                         ELSE IF ListedIp(pods, running[p].name) = NoneStr
                              THEN "done"
                         ELSE "check"],
               rules)

\* lines 385-392: iptables -C
CheckStep(p) ==
    /\ running[p].pc = "check"
    /\ Stepped(p,
               [running[p] EXCEPT
                  !.pc = IF CheckRule(rules, running[p].uid,
                                      running[p].service_ip)
                         THEN "done" ELSE "insert"],
               rules)

\* lines 393-396: iptables -I
InsertStep(p) ==
    /\ running[p].pc = "insert"
    /\ Stepped(p, [running[p] EXCEPT !.pc = "done"],
               InsertRule(rules, running[p].uid, running[p].service_ip))

\* lines 399-404: iptables -L, the listing the loop will go through
ListRules(p) ==
    /\ running[p].pc = "rules"
    /\ Stepped(p,
               [running[p] EXCEPT
                  !.lines = RuleLines(rules),
                  !.k = Len(rules),
                  !.pc = IF rules = <<>> THEN "done" ELSE "scan"],
               rules)

\* the rule a step took out of the chain, if it took one
Removed(chain, r, fields) ==
    IF Len(r.rules) < Len(chain) THEN {chain[fields[1].num]} ELSE {}

\* one pass of the loop of line 406, on line k of the listing: the delete
\* is by the position the listing gave, in the chain as it is now
ScanStep(p) ==
    /\ running[p].pc = "scan"
    /\ LET run == running[p]
           r == ScanLine(Ran(rules, "", {}, FALSE), run.lines[run.k],
                         run.uid, ExistingIps(run.data), {})
       IN  Stepped(p,
                   [run EXCEPT
                      !.k = run.k - 1,
                      !.err = r.err,
                      !.deleted = run.deleted
                                  \cup Removed(rules, r, run.lines[run.k]),
                      !.pc = IF r.err # "" \/ run.k = 1 THEN "done"
                             ELSE "scan"],
                   r.rules)

NextRace ==
    \/ \E p \in DOMAIN running : FetchPods(p)
    \/ \E p \in DOMAIN running : CheckStep(p)
    \/ \E p \in DOMAIN running : InsertStep(p)
    \/ \E p \in DOMAIN running : ListRules(p)
    \/ \E p \in DOMAIN running : ScanStep(p)

SpecRace == InitRace /\ [][NextRace]_vars

\* the addresses of the listed pods
ActiveIps == {ServiceIp(pods[i]) : i \in DOMAIN pods} \ {NoneStr}

\* C18: when both runs have finished, the pod of a run that is listed with
\* an address has the exemption rule of the run's user, and every rule a
\* run deleted was an exemption rule of its own user for an address no
\* listed pod has
C18_Converges ==
    (\A p \in DOMAIN running : running[p].pc = "done") =>
        \A p \in DOMAIN running :
            /\ ListedIp(pods, running[p].name) # NoneStr
               => Exemptions(rules, running[p].uid,
                             ListedIp(pods, running[p].name)) >= 1
            /\ \A rule \in running[p].deleted :
                 /\ rule.dest \notin ActiveIps
                 /\ \E d \in Ips : rule = ExemptRule(running[p].uid, d)

----------------------------------------------------------------------------
(* Two create or set invocations at once on the draft of one pod name.     *)
(* The steps of an invocation that touch the file are _load, the test for  *)
(* the file in _save, open(path, 'w') and the write of the document when   *)
(* the file is closed; running[p] is the invocation's position and its     *)
(* object. The images of this specification have names of one length, so   *)
(* the texts of two documents compare in length as their numbers of        *)
(* containers.                                                             *)

RaceImages == {ImageList[1], ImageList[3]}

RaceArgs ==
    {PlainArgs(a) @@ im :
        a \in {"create", "set"},
        im \in Opt({[image |-> i, kubes |-> <<"2">>] : i \in RaceImages})}

\* the draft a create with the first image stores
StoredBefore ==
    Set(EmptyDict,
        PlainArgs("create") @@ [image |-> ImageList[1], kubes |-> <<"2">>],
        EmptyDict, <<>>, Sample(1), Sample(1)).store

NewInvocation(args) ==
    [pc |-> "load", args |-> args, self |-> EmptyDict, err |-> "",
     read |-> "none"]

InitConcurrent ==
    /\ store \in {EmptyDict, StoredBefore}
    /\ last = [cmd |-> "none", err |-> ""]
    /\ submitted = <<>>
    /\ scheduled = <<>>
    /\ rules = <<>>
    /\ pods = <<>>
    /\ input = <<>>
    /\ output = <<>>
    /\ running \in {<<NewInvocation(a1), NewInvocation(a2)>> :
                      a1 \in RaceArgs, a2 \in RaceArgs}

\* two writers have written from offset 0: what is left of a longer text
\* follows the text written last
MixedFile == [kind |-> "mixed", doc |-> EmptyDict]

TextSize(doc) == Len(doc.containers)

\* the file after text mine was written from offset 0 over content current
Overlay(current, mine) ==
    IF current.kind = "empty" THEN mine
    ELSE IF current.kind = "json" /\ TextSize(mine.doc) >= TextSize(current.doc)
         THEN mine
    ELSE MixedFile

\* invocation p has taken a step that left it as inv
Moved(p, inv) == running' = [running EXCEPT ![p] = inv]

\* the constructor and lines 483-485, 490-494 of set: the file is read
\* and the container of the image selected
LoadDraft(p) ==
    /\ running[p].pc = "load"
    /\ LET args == running[p].args
           c == Construct(store, args)
           read == IF Exists(store, DataPath(PodName))
                   THEN store[DataPath(PodName)].kind ELSE "absent"
       IN  Moved(p, [running[p] EXCEPT
                       !.self = DeleteContainerImage(
                                  IF Has(args, "image")
                                  THEN SelectImage(c.self, EmptyDict, Sample(1))
                                  ELSE c.self),
                       !.read = read,
                       !.pc = "exists"])
    /\ UNCHANGED <<store, last, submitted, scheduled, rules, pods, input,
                   output>>

\* lines 721-722
CheckExists(p) ==
    /\ running[p].pc = "exists"
    /\ IF ~Exists(store, DataPath(PodName)) /\ running[p].args.action = "set"
       THEN Moved(p, [running[p] EXCEPT !.err = ERR_USE_CREATE, !.pc = "done"])
       ELSE Moved(p, [running[p] EXCEPT !.pc = "open"])
    /\ UNCHANGED <<store, last, submitted, scheduled, rules, pods, input,
                   output>>

\* line 724: open(self._data_path, 'w') empties the file
OpenDraft(p) ==
    /\ running[p].pc = "open"
    /\ store' = WriteFile(store, DataPath(PodName), EmptyFile)
    /\ Moved(p, [running[p] EXCEPT !.pc = "write"])
    /\ UNCHANGED <<last, submitted, scheduled, rules, pods, input, output>>

\* line 725: the document is written when the file is closed; last holds
\* who wrote last, and what
WriteDraft(p) ==
    /\ running[p].pc = "write"
    /\ LET doc == Prepare(running[p].self, FALSE, <<>>, Sample(1))
       IN  /\ store' = IF doc.err # "" THEN store
                       ELSE WriteFile(store, DataPath(PodName),
                                      Overlay(store[DataPath(PodName)],
                                              JsonFile(doc.data)))
           /\ last' = IF doc.err # "" THEN last
                      ELSE [cmd |-> "write", err |-> "", writer |-> p,
                            doc |-> doc.data]
           /\ Moved(p, [running[p] EXCEPT !.err = doc.err, !.pc = "done"])
    /\ UNCHANGED <<submitted, scheduled, rules, pods, input, output>>

NextConcurrent ==
    \/ \E p \in DOMAIN running : LoadDraft(p)
    \/ \E p \in DOMAIN running : CheckExists(p)
    \/ \E p \in DOMAIN running : OpenDraft(p)
    \/ \E p \in DOMAIN running : WriteDraft(p)

SpecConcurrent == InitConcurrent /\ [][NextConcurrent]_vars

\* C19: when both invocations have finished and one has written, the file
\* holds the whole document of the invocation that wrote last, and this
\* invocation had read a whole stored draft, or found no file
C19_LastWriterWins ==
    (/\ \A p \in DOMAIN running : running[p].pc = "done"
     /\ last.cmd = "write")
    => /\ store[DataPath(PodName)] = JsonFile(last.doc)
       /\ running[last.writer].read \in {"absent", "json"}


----------------------------------------------------------------------------
(* The checks of a drive bind: create and set with --persistent-drive,     *)
(* with or without an image, and a mount path that is good, bad, too long  *)
(* or not given.                                                           *)

CheckedArgs(action) ==
    {PlainArgs(action) @@ im @@ d : im \in Opt(ImageOptions), d \in DriveOptions}

CreateChecked == \E args \in CheckedArgs("create") : BindHandler(args)

SetChecked == \E args \in CheckedArgs("set") : BindHandler(args)

NextChecked == CreateChecked \/ SetChecked \/ ForgetAction

SpecChecked == Init /\ [][NextChecked]_vars

\* the invocation asked for a drive bind
AsksBind(l) ==
    l.cmd \in {"create", "set"} /\ Has(l.args, "persistent_drive")

\* the bind it asked for is one the checks of lines 763-778 refuse
Refused(l) ==
    \/ ~Has(l.args, "mount_path")
    \/ ~MountPathMatches(l.args.mount_path)
    \/ Len(l.args.mount_path) > MaxMountPathLen
    \/ /\ ~Has(l.args, "size")
       /\ \A i \in DOMAIN l.drives : l.drives[i].name # l.args.persistent_drive

\* C21: an invocation that asks for a drive bind with a mount path that is
\* missing, does not match or is too long, or with a drive that does not
\* exist remotely and no size, ends with an error, whatever the draft holds
C21_BindChecked ==
    [][(AsksBind(last') /\ Refused(last')) => last'.err # ""]_vars

----------------------------------------------------------------------------
(* More properties of the reconciler: failed deletes, pods without an      *)
(* address, rules of other programs                                        *)

\* C22: a run for a pod that is not listed, in which the delete of one
\* rule failed, ends normally and has removed every other stale rule of
\* its user: the chain afterwards is the chain before without them
C22_DeleteFailureTolerated ==
    [][(/\ last'.cmd = "postprocess"
        /\ ~IsListed(pods, last'.name)
        /\ last'.failed # {})
       => /\ last'.err = ""
          /\ \E k \in StaleRules(rules, pods, last'.uid) :
                /\ rules[k].dest \in last'.failed
                /\ rules' = Filter(rules,
                                   DOMAIN rules
                                   \ (StaleRules(rules, pods, last'.uid)
                                      \ {k}))]_vars

----------------------------------------------------------------------------
(* Seeding a new container: create and set with an image and nothing else, *)
(* against the answers the image query may give.                           *)

\* the query failed or gave nothing; one mount and one port; two mounts;
\* two ports
SeedAnswers ==
    PulledAnswers
    \cup {[volumeMounts |-> << <<"/", "v">>, <<"/", "w">> >>],
          [ports |-> <<[number |-> 80, protocol |-> Tcp],
                       [number |-> 53, protocol |-> Udp]>>]}

\* what the last invocation was, with its arguments and the answer of the
\* image query
LastSeed(args, r, pulled) ==
    [cmd |-> args.action, err |-> r.err, args |-> args, pulled |-> pulled]

SeedHandler(args) ==
    \E pulled \in SeedAnswers, k \in 1..NumSamples :
        /\ store' = Set(store, args, pulled, <<>>, Sample(k), Sample(k)).store
        /\ last' = LastSeed(args,
                            Set(store, args, pulled, <<>>, Sample(k),
                                Sample(k)),
                            pulled)
        /\ submitted' = <<>>
        /\ UNCHANGED <<scheduled, rules, pods, input, output, running>>

CreateSeed ==
    \E im \in ImageOptions : SeedHandler(PlainArgs("create") @@ im)

SetSeed == \E im \in ImageOptions : SeedHandler(PlainArgs("set") @@ im)

NextSeed == CreateSeed \/ SetSeed \/ ForgetAction

SpecSeed == Init /\ [][NextSeed]_vars

\* the invocation was a create or set for an image the draft had no
\* container of, on a draft that create or set can write
SeedsNew(l, st) ==
    /\ l.cmd \in {"create", "set"}
    /\ ImageIndexes(Draft(st).containers, l.args.image) = {}
    /\ l.cmd = "create" \/ Exists(st, DataPath(PodName))

PulledMounts(pulled) ==
    IF Has(pulled, "volumeMounts") THEN pulled.volumeMounts ELSE <<>>

PulledPorts(pulled) == IF Has(pulled, "ports") THEN pulled.ports ELSE <<>>

PortsOf(container) == IF Has(container, "ports") THEN container.ports ELSE <<>>

\* C23: an invocation for a new image returns, also when the image query
\* failed, and the container it appended has one mount per pulled mount
\* path and one port per pulled port, in order, each port not public and
\* with the pulled number as container and host port; nothing when the
\* query failed
C23_Seeding ==
    [][SeedsNew(last', store) =>
         /\ last'.err = ""
         /\ Len(Draft(store').containers) = Len(Draft(store).containers) + 1
         /\ LET c == Draft(store').containers[Len(Draft(store').containers)]
                mounts == PulledMounts(last'.pulled)
                ports == PulledPorts(last'.pulled)
            IN  /\ c.image = last'.args.image
                /\ Len(MountsOf(c)) = Len(mounts)
                /\ \A i \in DOMAIN mounts : MountsOf(c)[i].mountPath = mounts[i]
                /\ Len(PortsOf(c)) = Len(ports)
                /\ \A i \in DOMAIN ports :
                      /\ PortsOf(c)[i].isPublic = FALSE
                      /\ PortsOf(c)[i].containerPort = ports[i].number
                      /\ PortsOf(c)[i].hostPort = PortsOf(c)[i].containerPort]_vars

\* C23 witness: a second container was seeded with two ports
C23_Witness ==
    /\ last.cmd \in {"create", "set"}
    /\ last.err = ""
    /\ Has(last, "pulled")
    /\ Len(PulledPorts(last.pulled)) = 2
    /\ Len(Draft(store).containers) = 2
    /\ Draft(store).containers[2].image = last.args.image
    /\ Len(PortsOf(Draft(store).containers[2])) = 2
    /\ Draft(store).containers[2].ports[2].hostPort = 53

----------------------------------------------------------------------------
(* The env list of one container over several invocations: the draft is    *)
(* created with a container that has no env, then set adds, updates and    *)
(* deletes entries.                                                        *)

EnvImage == [image |-> ImageList[1], kubes |-> <<"2">>]

\* what the last invocation was, with the items or names it gave
LastEnv(args, r, items) ==
    [cmd |-> args.action, err |-> r.err, args |-> args, items |-> items]

EnvEnded(args, r, items) ==
    /\ store' = r.store
    /\ last' = LastEnv(args, r, items)
    /\ submitted' = <<>>
    /\ UNCHANGED <<scheduled, rules, pods, input, output, running>>

EnvHandler(args, items) ==
    EnvEnded(args, Set(store, args, EmptyDict, <<>>, Sample(1), Sample(1)),
             items)

CreateEnvDraft == EnvHandler(PlainArgs("create") @@ EnvImage, <<>>)

SetEnvAdd ==
    \E items \in SeqsUpTo(EnvItems, MaxItems) \ {<<>>} :
        EnvHandler(PlainArgs("set") @@ EnvImage @@ [env |-> EnvArg(items)],
                   items)

SetEnvDelete ==
    \E items \in SeqsUpTo(EnvItems, MaxItems) \ {<<>>} :
        EnvHandler(PlainArgs("set") @@ EnvImage
                     @@ [delete_env |->
                           Join([i \in DOMAIN items |-> items[i].name],
                                <<",">>)],
                   items)

NextEnvRuns == CreateEnvDraft \/ SetEnvAdd \/ SetEnvDelete

SpecEnvRuns == Init /\ [][NextEnvRuns]_vars

\* the env list of the container of the draft, <<>> when there is none
EnvAt(st) ==
    IF Draft(st).containers = <<>> \/ ~Has(Draft(st).containers[1], "env")
    THEN <<>>
    ELSE Draft(st).containers[1].env

NamesOf(entries) == [i \in DOMAIN entries |-> entries[i].name]

\* the names of a list in the order they are first seen
FirstSeen(names) ==
    Filter(names, {i \in DOMAIN names :
                     \A j \in 1..(i - 1) : names[j] # names[i]})

\* the names an --env of these items gives that the list does not have
FreshNames(env, items) ==
    FirstSeen(NamesOf(Filter(items,
        {i \in DOMAIN items :
           /\ items[i].value # NoneSeq
           /\ \A k \in DOMAIN env : env[k].name # items[i].name})))

\* C24: from a container with no env, every invocation leaves an env list
\* with no name twice, and an --env leaves the names the list had, in
\* their order, followed by the new names, once each, as first seen
C24_EnvNamesUnique ==
    [][(last'.cmd = "set" /\ last'.err = "") =>
         /\ UniqueNames(EnvAt(store'))
         /\ Has(last'.args, "env")
            => NamesOf(EnvAt(store'))
               = NamesOf(EnvAt(store)) \o FreshNames(EnvAt(store),
                                                     last'.items)]_vars

----------------------------------------------------------------------------
(* Volumes and the mounts that name them                                   *)

\* every volume of the document has the name of a mount of one of its
\* containers
NoOrphans(doc) ==
    \A k \in DOMAIN doc.volumes :
       \E i \in DOMAIN doc.containers :
          \E j \in DOMAIN MountsOf(doc.containers[i]) :
             /\ Has(MountsOf(doc.containers[i])[j], "name")
             /\ MountsOf(doc.containers[i])[j].name = doc.volumes[k].name

\* C25: in the stored draft and in the document save submits, every volume
\* has the name of a volume mount of some container
C25_NoOrphanVolumes ==
    /\ NoOrphans(Draft(store))
    /\ submitted # <<>> => NoOrphans(submitted[1])

\* C26: a run for a pod that is listed and has no address returns and
\* leaves the chain as it was
C26_NoAddressNoChange ==
    [][(/\ last'.cmd = "postprocess"
        /\ IsListed(pods, last'.name)
        /\ ListedIp(pods, last'.name) = NoneStr)
       => rules' = rules /\ last'.err = "" /\ ~last'.inserted]_vars

\* C26 witness: such a run has ended on a chain that holds a stale rule of
\* its user and a rule without option text
C26_Witness ==
    /\ last.cmd = "postprocess"
    /\ IsListed(pods, last.name)
    /\ ListedIp(pods, last.name) = NoneStr
    /\ StaleRules(rules, pods, last.uid) # {}
    /\ \E i \in DOMAIN rules : rules[i].text = <<>>

\* the rules of a chain that carry no owner match, in chain order
Unowned(chain) ==
    Filter(chain, {i \in DOMAIN chain : OwnerUid(chain[i].text) = <<>>})

\* C27: a run for a pod that is not listed, in which no delete failed,
\* returns, leaves every rule without an owner match (also one without
\* option text) in the chain, and leaves no stale rule of its user
C27_UnownedSkipped ==
    [][(/\ last'.cmd = "postprocess"
        /\ ~IsListed(pods, last'.name)
        /\ last'.failed = {})
       => /\ last'.err = ""
          /\ Unowned(rules') = Unowned(rules)
          /\ StaleRules(rules', pods, last'.uid) = {}]_vars

----------------------------------------------------------------------------
(* The commands that schedule and the commands that store                  *)

\* C28: a delete that removed the pod remotely returns, whatever happened
\* while the reconciliation was scheduled (no token in the answer of the
\* token request, at failing)
C28_SchedulingBestEffort ==
    [][(last'.cmd = "delete" /\ pods' # pods) => last'.err = ""]_vars

\* create and set with or without an image, and with no other option or
\* one of: show the env list, add an env entry, a port that fails
\* validation, the scalars; the arguments are kept in last
FirstOptions ==
    {im @@ o : im \in Opt(ImageOptions),
               o \in Opt({[list_env |-> TRUE],
                          [env |-> <<"A", ":", "1">>],
                          [container_port |-> <<"7", "0", "0", "0", "0">>]}
                         \cup ScalarOptions)}

CreateFirst == \E args \in ArgsOf("create", FirstOptions) : BindHandler(args)

SetFirst == \E args \in ArgsOf("set", FirstOptions) : BindHandler(args)

NextFirst == CreateFirst \/ SetFirst \/ ForgetAction

SpecFirst == Init /\ [][NextFirst]_vars

\* the invocation was to show the env list and store nothing
ListsEnv(l) == Has(l.args, "list_env") /\ l.args.list_env

\* C29 as stated: on a name that has no draft file, every set fails and
\* leaves no file, and a create that returns has stored a draft
C29_AsStated ==
    [][/\ (last'.cmd = "set" /\ ~Exists(store, DataPath(PodName)))
          => last'.err # "" /\ ~Exists(store', DataPath(PodName))
       /\ (/\ last'.cmd = "create"
           /\ ~Exists(store, DataPath(PodName))
           /\ last'.err = "")
          => Readable(store')]_vars

\* C29: on a name that has no draft file, a set leaves no file and fails
\* unless it is to show the env list; a create that returns and is not to
\* show the env list has stored a draft, with the pod name in it
C29_CreateFirst ==
    [][/\ (last'.cmd = "set" /\ ~Exists(store, DataPath(PodName)))
          => /\ ~Exists(store', DataPath(PodName))
             /\ last'.err = "" => ListsEnv(last')
             /\ ~ListsEnv(last') => last'.err = ERR_USE_CREATE
       /\ (/\ last'.cmd = "create"
           /\ ~Exists(store, DataPath(PodName))
           /\ last'.err = ""
           /\ ~ListsEnv(last'))
          => Readable(store') /\ Draft(store').name = PodName
       /\ (last'.cmd \in {"create", "set"} /\ ListsEnv(last'))
          => store' = store]_vars

\* C29 witness: a set with an image and an env option has failed on a name
\* whose draft was forgotten, and there is no file
C29_Witness ==
    /\ last.cmd = "set"
    /\ last.err = ERR_USE_CREATE
    /\ Has(last.args, "image") /\ Has(last.args, "env")
    /\ ~Exists(store, DataPath(PodName))

============================================================================
